---- MODULE Spec2Model ----
(***************************************************************************)
(* LoRa messenger firmware (src/src/main.cpp): AES/hex codec, T9 keypad     *)
(* composer, screen navigation and the FreeRTOS tasks that share the        *)
(* display state under lvglMutex.                                           *)
(*                                                                          *)
(* Text is a sequence of character codes (ASCII), so that line terminators, *)
(* hex digits and padding bytes are what the code makes of them.            *)
(***************************************************************************)
EXTENDS Integers, Sequences, FiniteSets, TLC

\* ------------------------------------------------------------------ bounds
\* longest plaintext handed to the codec
MaxPlainLen == 272
\* key presses dispatched in one run of the keypad specification
MaxPresses == 4
\* ms between two key presses made in quick succession
DtQuick == 200
\* characters already typed when the keypad specification starts with a nearly
\* full MessageBuffer
PrefillLen == 124

\* key changes the keypad task sees in one run of the device specification
MaxScans == 3
\* lines arriving on the radio link in one run
MaxArrivals == 1
\* values the wireless peer writes in one run
MaxBleWrites == 1
\* voltage samples taken in one run
MaxSamples == 1
\* longest line of hex digits given to the radio-link reader specification
MaxLineLen == 40
\* lines the radio-link reader specification receives in one run
MaxReaderLines == 2
\* values the wireless peer writes in one run of the mailbox specification
MaxMailboxWrites == 2
\* codec calls each task makes in one run of the cipher specification
MaxCalls == 1
\* voltages, about 0.02 V apart from 3.0 V up, the Telemetry specification samples
MaxGaugeSteps == 64
\* presses of one key in quick succession made before the cycle specification starts
PriorTaps == 254
\* longest hex string given to the decode specification, in 16-byte blocks
MaxHexBlocks == 17
\* millis() when keypadTask makes its first scan in the poll specification
BootMs == 200
\* iterations of keypadTask in one run of the poll specification
MaxPolls == 20

\* --------------------------------------------------------- character codes
LF == 10
CR == 13


\* uint8_t arithmetic
U8(n) == n % 256

\* ------------------------------------------------------------------ codec
\* isxdigit(c)
IsXDigit(c) == c \in (48..57) \cup (65..70) \cup (97..102)

\* value of one hexadecimal digit, as strtol(.., 16) reads it
HexVal(c) == IF c \in 48..57 THEN c - 48
             ELSE IF c \in 65..70 THEN c - 55
             ELSE c - 87

\* sprintf("%X") of one nibble
HexChar(n) == IF n < 10 THEN 48 + n ELSE 55 + n

\* sprintf(hex, "%02X", output[i]) for every byte, concatenated
ToHex(bytes) ==
    [i \in 1..(2 * Len(bytes)) |->
        IF i % 2 = 1 THEN HexChar(bytes[(i + 1) \div 2] \div 16)
        ELSE HexChar(bytes[i \div 2] % 16)]

\* strtol(byteStr, NULL, 16) of the two-character substring at byte i (0-based):
\* the longest prefix of hex digits is converted, anything else stops it
StrToByte(hex, i) ==
    LET a == hex[2 * i + 1]
        b == hex[2 * i + 2]
    IN IF ~IsXDigit(a) THEN 0
       ELSE IF ~IsXDigit(b) THEN HexVal(a)
       ELSE 16 * HexVal(a) + HexVal(b)

\* aes128.encryptBlock under the fixed key: a fixed bijection on 16-byte blocks
EncBlock(blk) == [i \in 1..16 |-> (blk[17 - i] * 5 + 3 * i + 7) % 256]

\* aes128.decryptBlock under the fixed key: the inverse of EncBlock
DecBlock(blk) ==
    [j \in 1..16 |-> ((blk[17 - j] + 256 * 4 - 3 * (17 - j) - 7) * 205) % 256]

\* a block-wise map over the first n bytes (n a multiple of 16)
Blocks(F(_), bytes, n) ==
    [i \in 1..n |->
        LET base == ((i - 1) \div 16) * 16
        IN F([k \in 1..16 |-> bytes[base + k]])[i - base]]

\* mutant: no padding block when the length is already a multiple of 16
EncPadLen_NoFullBlock(plaintext) == (16 - (Len(plaintext) % 16)) % 16

\* uint8_t padLen = 16 - (plaintext.length() % 16)
EncPadLen(plaintext) == U8(16 - (Len(plaintext) % 16))

\* uint8_t inputLen = plaintext.length() + padLen: the size of both new[] buffers
EncInputLen(plaintext) == U8(Len(plaintext) + EncPadLen(plaintext))

\* bytes that memcpy and memset write into input[]
EncWritten(plaintext) == Len(plaintext) + EncPadLen(plaintext)

\* input[0 .. inputLen-1] after memcpy and memset (PKCS7 padding)
EncInput(plaintext) ==
    [i \in 1..EncInputLen(plaintext) |->
        IF i <= Len(plaintext) THEN plaintext[i] ELSE EncPadLen(plaintext)]

\* the String encryptMessage returns when the call returns at all
encryptMessage(plaintext) ==
    ToHex(Blocks(EncBlock, EncInput(plaintext), EncInputLen(plaintext)))

\* "[ERRO DECRYPT]"
ErroDecrypt == <<91, 69, 82, 82, 79, 32, 68, 69, 67, 82, 89, 80, 84, 93>>

\* uint8_t cipherLen = cipherHex.length() / 2
DecCipherLen(cipherHex) == U8(Len(cipherHex) \div 2)

\* cipher[0 .. cipherLen-1]: the hex pairs converted by strtol
DecCipher(cipherHex) ==
    [i \in 1..DecCipherLen(cipherHex) |-> StrToByte(cipherHex, i - 1)]

\* output[] after the decryptBlock loop
DecOutput(cipherHex) ==
    Blocks(DecBlock, DecCipher(cipherHex), DecCipherLen(cipherHex))

\* uint8_t padLen = output[cipherLen - 1]; if (padLen > 16) padLen = 0;
\* stray is the byte found at output[-1] when cipherLen is 0
DecPadLen(cipherHex, stray) ==
    LET n == DecCipherLen(cipherHex)
        last == IF n = 0 THEN stray ELSE DecOutput(cipherHex)[n]
    IN IF last > 16 THEN 0 ELSE last

\* mutant: no check of the length of the hex string
decryptWith_NoLengthCheck(cipherHex, stray) ==
    LET n == DecCipherLen(cipherHex) - DecPadLen(cipherHex, stray)
    IN IF n <= 0 THEN <<>> ELSE SubSeq(DecOutput(cipherHex), 1, n)

\* the String decryptMessage returns; the loop bound cipherLen - padLen is an int
decryptWith(cipherHex, stray) ==
    IF Len(cipherHex) % 32 # 0 THEN ErroDecrypt
    ELSE LET n == DecCipherLen(cipherHex) - DecPadLen(cipherHex, stray)
         IN IF n <= 0 THEN <<>> ELSE SubSeq(DecOutput(cipherHex), 1, n)

decryptMessage(cipherHex) == decryptWith(cipherHex, 0)

\* ----------------------------------------------------------------- keypad
\* #define T9_TIMEOUT 1000
T9_TIMEOUT == 1000

\* uint8_t lastKeyPressed = 255: no key pressed yet
NoKey == 255

\* const char T9_MAP[16][5], rows indexed by keyIndex + 1, 0 for '\0'
T9_MAP == <<
    <<49, 46, 44, 33, 63>>,
    <<65, 66, 67, 50, 0>>,
    <<68, 69, 70, 51, 0>>,
    <<65, 0, 0, 0, 0>>,
    <<71, 72, 73, 52, 0>>,
    <<74, 75, 76, 53, 0>>,
    <<77, 78, 79, 54, 0>>,
    <<66, 0, 0, 0, 0>>,
    <<80, 81, 82, 83, 55>>,
    <<84, 85, 86, 56, 0>>,
    <<87, 88, 89, 90, 57>>,
    <<67, 0, 0, 0, 0>>,
    <<42, 43, 45, 0, 0>>,
    <<32, 48, 0, 0, 0>>,
    <<35, 64, 0, 0, 0>>,
    <<68, 0, 0, 0, 0>> >>

\* const uint8_t KEY_INDEX[4][4]: keyIndex of the key at (row, col), both from 0
KEY_INDEX(row, col) == 4 * row + col

\* the loop of getT9Char: glyphs before the first '\0'
MaxChars(keyIndex) ==
    Cardinality({n \in 1..5 : \A m \in 1..n : T9_MAP[keyIndex + 1][m] # 0})

getT9Char(keyIndex, charIndex) ==
    IF keyIndex >= 16 THEN 0
    ELSE IF MaxChars(keyIndex) = 0 THEN 0
    ELSE T9_MAP[keyIndex + 1][(charIndex % MaxChars(keyIndex)) + 1]

\* A=3, B=7, C=11, D=15
isSpecialKey(keyIndex) == keyIndex \in {3, 7, 11, 15}

\* ------------------------------------------------------------------ state
VARIABLES
    currentScreen,      \* AppScreen currentScreen
    encryptionEnabled,  \* bool encryptionEnabled
    t9CharIndex,        \* uint8_t t9CharIndex
    lastKeyPressed,     \* uint8_t lastKeyPressed
    lastKeyTime,        \* uint32_t lastKeyTime
    messageBuffer,      \* char messageBuffer[128], up to its terminator
    messageLen,         \* uint8_t messageLen
    ui_lora_input,      \* text of the RadioEntry input field
    ui_lora_log,        \* text of the RadioEntry log
    ui_monitor_log,     \* text of the Monitor log
    ui_bt_log,          \* text of the Wireless log
    ui_monitor_status,  \* Monitor status label
    ui_bt_status,       \* Wireless status label
    monitorMsgCount,    \* uint32_t monitorMsgCount
    bleConnected,       \* bool bleConnected
    bleInitialized,     \* bool bleInitialized
    bleRxBuffer,        \* String bleRxBuffer
    newBleData,         \* bool newBleData
    lvglMutex,          \* holder of lvglMutex, or Free
    pc,                 \* position of each task in its loop
    now,                \* millis()
    kp,                 \* keypadTask locals: key, lastKey, debounceTime
    lora,               \* loraTask locals
    bt,                 \* bluetoothTask locals
    serial2Tx,          \* frames written to the radio link, oldest first
    serial2Rx,          \* frames waiting on the radio link, oldest first
    rxHist,             \* history: the text shown for each inbound line read
    nPresses,           \* history: keys dispatched so far
    lastDispatch,       \* history: the key dispatched last and the screen it found
    taps,               \* history: the gaps of the presses of the multi-tap harness
    nScans,             \* history: key changes seen by keypadTask
    nArrivals,          \* history: frames that arrived from peers
    nEchoed,            \* history: frames of serial2Tx that came back on the link
    nSamples,           \* history: voltage samples taken
    bleWrites,          \* history: values written by the wireless peer
    bleTx,              \* history: notifications sent to the wireless peer
    batteryVoltage,     \* float batteryVoltage, in units of 2^-22 V
    ui_battery,         \* Telemetry screen: voltage label and bar value
    ui_header,          \* text of the voltage label in each screen's header
    codecIn,            \* codec harness: the plaintext or hex string given
    codecHex,           \* codec harness: result of encryptMessage
    codecOut,           \* codec harness: result of decryptMessage
    codecPc,            \* codec harness: position
    aesWriters,         \* callers inside aes128.setKey, rewriting the cipher object
    call,               \* cipher harness: each caller's codec call in progress
    pad                 \* the keypad: the key held down, and the history of its scans

navVars == <<currentScreen, encryptionEnabled>>
t9Vars == <<t9CharIndex, lastKeyPressed, lastKeyTime>>
bufVars == <<messageBuffer, messageLen, ui_lora_input>>
logVars == <<ui_lora_log, ui_monitor_log, ui_bt_log>>
monVars == <<monitorMsgCount, ui_monitor_status>>
bleVars == <<bleConnected, bleInitialized, bleRxBuffer, newBleData, bleWrites, bleTx>>
batVars == <<batteryVoltage, ui_battery, ui_header, nSamples>>
taskVars == <<lvglMutex, pc, lora, bt>>
keyVars == <<now, kp, nPresses, lastDispatch, taps, nScans, pad>>
linkVars == <<serial2Tx, serial2Rx, rxHist, nArrivals, nEchoed>>
codecVars == <<codecIn, codecHex, codecOut, codecPc, aesWriters, call>>
\* what handleKeyPress may write
handlerVars == <<navVars, t9Vars, bufVars, logVars, monVars, ui_bt_status, serial2Tx>>
vars == <<navVars, t9Vars, bufVars, logVars, monVars, ui_bt_status, bleVars,
          batVars, taskVars, keyVars, linkVars, codecVars>>

\* the tasks created by setup() that take lvglMutex
Tasks == {"keypad", "lora", "bluetooth", "battery", "lvgl"}
\* the NimBLE host context that runs the characteristic callbacks
BleHost == "blehost"
Free == "free"

\* enum AppScreen, the values switchScreen is called with
Screens == {"MENU", "LORA", "MONITOR", "BLUETOOTH", "BATTERY"}

\* --------------------------------------------------------- string literals
TxtSent == <<62, 32>>
TxtRecv == <<60, 32>>
TxtBtTag == <<91, 66, 84, 93, 62, 32>>
TxtLoraOk == <<10, 62, 32, 76, 111, 82, 97, 58, 32, 79, 75, 10>>
TxtLogLimpo == <<76, 111, 103, 32, 108, 105, 109, 112, 111, 46, 10, 65, 103, 117, 97, 114, 100, 97, 110, 100, 111, 32, 109, 101, 110, 115, 97, 103, 101, 110, 115, 46, 46, 46, 10>>
TxtInfo(connected) ==
    <<78, 111, 109, 101, 58, 32, 69, 83, 80, 51, 50, 95, 76, 111, 82, 97, 10, 84, 105, 112, 111, 58, 32, 66, 76, 69, 32, 40, 85, 65, 82, 84, 41, 10>>
    \o (IF connected THEN <<83, 116, 97, 116, 117, 115, 58, 32, 67, 111, 110, 101, 99, 116, 97, 100, 111, 10>>
        ELSE <<83, 116, 97, 116, 117, 115, 58, 32, 65, 103, 117, 97, 114, 100, 97, 110, 100, 111, 46, 46, 46, 10>>)
    \o <<85, 115, 101, 32, 97, 112, 112, 58, 32, 110, 82, 70, 32, 67, 111, 110, 110, 101, 99, 116, 10>>

\* Serial2.println(s): the text followed by "\r\n", as one frame on the link.
\* src and plain record who wrote the frame and the plaintext it carries.
Println(s, src, plain, enc) ==
    [data |-> s \o <<CR, LF>>, src |-> src, plain |-> plain, enc |-> enc]

\* ------------------------------------------------------------- navigation
\* switchScreen(screen): the BLUETOOTH case refreshes the status label
switchScreen(screen) ==
    /\ currentScreen' = screen
    /\ ui_bt_status' =
         IF screen # "BLUETOOTH" THEN ui_bt_status
         ELSE IF ~bleInitialized THEN "BLE: Inicializando..."
         ELSE IF bleConnected THEN "BLE Conectado!"
         ELSE "BLE: ESP32_LoRa (aguardando)"

\* mutant: the Telemetry screen on the fourth key of the first keypad row
MenuTarget_FirstRow(keyIndex) ==
    CASE keyIndex = 0 -> "LORA"
      [] keyIndex = 1 -> "MONITOR"
      [] keyIndex = 2 -> "BLUETOOTH"
      [] keyIndex = 3 -> "BATTERY"
      [] OTHER -> ""

\* the switch of processMenuKey: the screen a key opens, "" for none
MenuTarget(keyIndex) ==
    CASE keyIndex = 0 -> "LORA"
      [] keyIndex = 1 -> "MONITOR"
      [] keyIndex = 2 -> "BLUETOOTH"
      [] keyIndex = 4 -> "BATTERY"
      [] OTHER -> ""

\* case 5 of processMenuKey
MenuToggles(keyIndex) == keyIndex = 5

processMenuKey(keyIndex) ==
    /\ IF MenuTarget(keyIndex) # "" THEN switchScreen(MenuTarget(keyIndex))
       ELSE UNCHANGED <<currentScreen, ui_bt_status>>
    /\ encryptionEnabled' =
         IF MenuToggles(keyIndex) THEN ~encryptionEnabled ELSE encryptionEnabled
    /\ UNCHANGED <<t9Vars, bufVars, logVars, monVars, serial2Tx>>

\* mutant: Delete on the Monitor clears the log and leaves the counter
processMonitorKey_KeepsCount(keyIndex) ==
    /\ IF keyIndex = 7 THEN switchScreen("MENU")
       ELSE UNCHANGED <<currentScreen, ui_bt_status>>
    /\ ui_monitor_log' = IF keyIndex = 15 THEN <<>> ELSE ui_monitor_log
    /\ UNCHANGED <<monVars, encryptionEnabled, t9Vars, bufVars, ui_lora_log,
                   ui_bt_log, serial2Tx>>

processMonitorKey(keyIndex) ==
    /\ IF keyIndex = 7 THEN switchScreen("MENU")
       ELSE UNCHANGED <<currentScreen, ui_bt_status>>
    /\ IF keyIndex = 15
       THEN /\ ui_monitor_log' = <<>>
            /\ monitorMsgCount' = 0
            /\ ui_monitor_status' = [text |-> "Log limpo", msgs |-> 0]
       ELSE UNCHANGED <<ui_monitor_log, monVars>>
    /\ UNCHANGED <<encryptionEnabled, t9Vars, bufVars, ui_lora_log, ui_bt_log, serial2Tx>>

\* keyIndex == lastKeyPressed && (now - lastKeyTime) < T9_TIMEOUT. The clock of
\* the model stays far below 2^32 ms (49 days), so the uint32_t difference is
\* the plain one
T9Cycles(keyIndex, nowVal) ==
    /\ keyIndex = lastKeyPressed
    /\ (nowVal - lastKeyTime) < T9_TIMEOUT

\* mutant: the cycle index is not advanced
T9NextIndex_NoAdvance(keyIndex, nowVal) ==
    IF T9Cycles(keyIndex, nowVal) THEN t9CharIndex ELSE 0

\* t9CharIndex after the if/else in the T9 branch
T9NextIndex(keyIndex, nowVal) ==
    IF T9Cycles(keyIndex, nowVal) THEN U8(t9CharIndex + 1) ELSE 0

\* messageLen after the if/else in the T9 branch (the last character is dropped
\* when the same key cycles)
T9BaseLen(keyIndex, nowVal) ==
    IF T9Cycles(keyIndex, nowVal) /\ messageLen > 0 THEN messageLen - 1
    ELSE messageLen

\* mutant: a glyph is stored whatever the length
T9Accepts_NoLimit(c, len) == c # 0

\* c != '\0' && messageLen < 126
T9Accepts(c, len) == c # 0 /\ len < 126

\* "> " + msg + "\n"
SentEntry(msg) == TxtSent \o msg \o <<LF>>

\* mutant: Send writes the buffer text whatever the encryption flag says
SendFrame_Plain(msg) == Println(msg, "keypad", msg, encryptionEnabled)

\* the frame the Send key writes: ciphertext iff encryptionEnabled
SendFrame(msg) ==
    Println(IF encryptionEnabled THEN encryptMessage(msg) ELSE msg,
            "keypad", msg, encryptionEnabled)

\* mutant: Back leaves the screen with the text still in MessageBuffer
processLoRaBack_KeepsText ==
    /\ switchScreen("MENU")
    /\ UNCHANGED <<bufVars, encryptionEnabled, t9Vars, logVars, monVars, serial2Tx>>

\* the Back branch of processLoRaKey
processLoRaBack ==
    /\ messageBuffer' = <<>>
    /\ messageLen' = 0
    /\ ui_lora_input' = <<>>
    /\ switchScreen("MENU")
    /\ UNCHANGED <<encryptionEnabled, t9Vars, logVars, monVars, serial2Tx>>

\* mutant: Delete removes the character and leaves the multi-tap session alone
processLoRaDelete_KeepsSession ==
    /\ IF messageLen > 0
       THEN /\ messageLen' = messageLen - 1
            /\ messageBuffer' = SubSeq(messageBuffer, 1, messageLen - 1)
            /\ ui_lora_input' = messageBuffer'
       ELSE UNCHANGED bufVars
    /\ UNCHANGED <<navVars, ui_bt_status, t9Vars, logVars, monVars, serial2Tx>>

\* the Delete branch of processLoRaKey
processLoRaDelete ==
    /\ IF messageLen > 0
       THEN /\ messageLen' = messageLen - 1
            /\ messageBuffer' = SubSeq(messageBuffer, 1, messageLen - 1)
            /\ ui_lora_input' = messageBuffer'
       ELSE UNCHANGED bufVars
    /\ t9CharIndex' = 0
    /\ lastKeyPressed' = NoKey
    /\ UNCHANGED <<navVars, ui_bt_status, lastKeyTime, logVars, monVars, serial2Tx>>

processLoRaKey(keyIndex, nowVal) ==
    IF keyIndex = 7 THEN processLoRaBack
    ELSE IF keyIndex = 11 THEN
        /\ IF messageLen > 0
           THEN /\ serial2Tx' = Append(serial2Tx, SendFrame(messageBuffer))
                /\ ui_lora_log' = ui_lora_log \o SentEntry(messageBuffer)
                /\ messageBuffer' = <<>>
                /\ messageLen' = 0
                /\ ui_lora_input' = <<>>
           ELSE UNCHANGED <<serial2Tx, ui_lora_log, bufVars>>
        /\ UNCHANGED <<navVars, ui_bt_status, t9Vars, ui_monitor_log, ui_bt_log, monVars>>
    ELSE IF keyIndex = 15 THEN processLoRaDelete
    ELSE IF ~isSpecialKey(keyIndex) THEN
        LET idx == T9NextIndex(keyIndex, nowVal)
            len == T9BaseLen(keyIndex, nowVal)
            c == getT9Char(keyIndex, idx)
        IN /\ t9CharIndex' = idx
           /\ IF T9Accepts(c, len)
              THEN /\ messageBuffer' = SubSeq(messageBuffer, 1, len) \o <<c>>
                   /\ messageLen' = len + 1
                   /\ ui_lora_input' = messageBuffer'
              ELSE /\ messageLen' = len
                   /\ UNCHANGED <<messageBuffer, ui_lora_input>>
           /\ lastKeyPressed' = keyIndex
           /\ lastKeyTime' = nowVal
           /\ UNCHANGED <<navVars, ui_bt_status, logVars, monVars, serial2Tx>>
    ELSE UNCHANGED handlerVars

processBluetoothKey(keyIndex) ==
    /\ IF keyIndex = 7 THEN switchScreen("MENU")
       ELSE UNCHANGED <<currentScreen, ui_bt_status>>
    /\ ui_bt_log' =
         IF keyIndex = 11 THEN TxtLogLimpo
         ELSE IF keyIndex = 15 THEN ui_bt_log \o TxtInfo(bleConnected)
         ELSE ui_bt_log
    /\ UNCHANGED <<encryptionEnabled, t9Vars, bufVars, ui_lora_log, ui_monitor_log,
                   monVars, serial2Tx>>

\* mutant: the Telemetry screen ignores the Back key
processBatteryKey_NoBack(keyIndex) == UNCHANGED handlerVars

processBatteryKey(keyIndex) ==
    /\ IF keyIndex = 7 THEN switchScreen("MENU")
       ELSE UNCHANGED <<currentScreen, ui_bt_status>>
    /\ UNCHANGED <<encryptionEnabled, t9Vars, bufVars, logVars, monVars, serial2Tx>>

\* the switch of handleKeyPress, between xSemaphoreTake and xSemaphoreGive;
\* nowVal is what millis() returns inside processLoRaKey
handleKeyPress(keyIndex, nowVal) ==
    CASE currentScreen = "MENU" -> processMenuKey(keyIndex)
      [] currentScreen = "LORA" -> processLoRaKey(keyIndex, nowVal)
      [] currentScreen = "MONITOR" -> processMonitorKey(keyIndex)
      [] currentScreen = "BLUETOOTH" -> processBluetoothKey(keyIndex)
      [] currentScreen = "BATTERY" -> processBatteryKey(keyIndex)
      [] OTHER -> UNCHANGED handlerVars

\* ---------------------------------------------------------------- startup
\* the globals no key has touched, as their initialisers and setup() leave them,
\* every task at the top of its loop (bluetoothTask before its NimBLE bring-up)
\* the label text "?.??" the screens are created with
Unset == -1

InitIdle ==
    /\ encryptionEnabled = TRUE
    /\ ui_lora_log = <<>>
    /\ ui_monitor_log = <<>>
    /\ ui_bt_log = <<>>
    /\ ui_monitor_status = [text |-> "Escutando", msgs |-> 0]
    /\ ui_bt_status = "BT: Desconectado"
    /\ monitorMsgCount = 0
    /\ bleConnected = FALSE
    /\ bleInitialized = FALSE
    /\ bleRxBuffer = <<>>
    /\ newBleData = FALSE
    /\ bleWrites = <<>>
    /\ bleTx = <<>>
    /\ batteryVoltage = 0
    /\ ui_battery = [voltage |-> Unset, bar |-> 50]
    /\ ui_header = [s \in Screens |-> Unset]
    /\ lvglMutex = Free
    /\ pc = [t \in Tasks \cup {BleHost} |->
               CASE t = "keypad" -> "scan"
                 [] t = "lora" -> "poll"
                 [] t = "bluetooth" -> "init"
                 [] t = "battery" -> "sample"
                 [] t = "lvgl" -> "take"
                 [] OTHER -> "idle"]
    /\ kp = [key |-> -1, lastKey |-> -1, debounceTime |-> 0]
    /\ lora = [incomingMsg |-> <<>>, displayMsg |-> <<>>, logCopy |-> <<>>,
               from |-> "", plain |-> <<>>, cipher |-> FALSE, encRead |-> FALSE]
    /\ bt = [msg |-> <<>>, logCopy |-> <<>>]
    /\ serial2Tx = <<>>
    /\ serial2Rx = <<>>
    /\ rxHist = <<>>
    /\ nPresses = 0
    /\ taps = <<>>
    /\ nScans = 0
    /\ pad = [down |-> -1, runSince |-> 0, run |-> 0, lastAt |-> -1, prevAt |-> -1]
    /\ nArrivals = 0
    /\ nEchoed = 0
    /\ nSamples = 0

\* the keypad state at boot: Menu, empty MessageBuffer, no key pressed yet
Booted ==
    /\ currentScreen = "MENU"
    /\ t9CharIndex = 0
    /\ lastKeyPressed = NoKey
    /\ lastKeyTime = 0
    /\ messageBuffer = <<>>
    /\ messageLen = 0
    /\ ui_lora_input = <<>>
    /\ now = 0
    /\ lastDispatch = [key |-> NoKey, screen |-> "MENU"]

InitDevice == InitIdle /\ Booted

\* the tasks that call the codec: Send in the keypad task (encryptMessage),
\* the radio-link reader (decryptMessage), the wireless forward (encryptMessage)
Callers == {"keypad", "lora", "bluetooth"}

\* AES128 aes128 as constructed, no call in progress
CipherIdle ==
    /\ aesWriters = {}
    /\ call = [c \in Callers |-> [pc |-> "idle", input |-> <<>>, i |-> 0,
                                  out |-> <<>>, n |-> 0]]

CodecIdle ==
    /\ codecIn = <<>>
    /\ codecHex = <<>>
    /\ codecOut = <<>>
    /\ codecPc = "idle"
    /\ CipherIdle

\* ---------------------------------------------------------- codec harness
\* byte i of test plaintext number p: letters, a spread of non-zero bytes,
\* and the two padding-like values 16 and 1
PlainByte(p, i) ==
    CASE p = 1 -> 65
      [] p = 2 -> 1 + ((i * 7) % 255)
      [] p = 3 -> 16
      [] OTHER -> 1

Plaintexts ==
    {[i \in 1..n |-> PlainByte(p, i)] : n \in 0..MaxPlainLen, p \in 1..4}

InitCodec ==
    /\ InitDevice
    /\ codecIn \in Plaintexts
    /\ codecHex = <<>>
    /\ codecOut = <<>>
    /\ codecPc = "input"
    /\ CipherIdle

\* a call of encryptMessage(codecIn). Writing more bytes than new[] allocated is
\* undefined: the call may bring the firmware down, or return what the loops
\* over inputLen bytes produce
CodecEncrypt ==
    /\ codecPc = "input"
    /\ codecPc' \in (IF EncWritten(codecIn) > EncInputLen(codecIn)
                     THEN {"encoded", "crashed"} ELSE {"encoded"})
    /\ codecHex' = IF codecPc' = "encoded" THEN encryptMessage(codecIn) ELSE <<>>
    /\ UNCHANGED <<codecIn, codecOut, aesWriters, call>>

\* a call of decryptMessage on the string encryptMessage returned
CodecDecrypt ==
    /\ codecPc = "encoded"
    /\ codecOut' = decryptMessage(codecHex)
    /\ codecPc' = "decoded"
    /\ UNCHANGED <<codecIn, codecHex, aesWriters, call>>

deviceVars == <<navVars, t9Vars, bufVars, logVars, monVars, ui_bt_status, bleVars,
                batVars, taskVars, keyVars, linkVars>>

NextCodec ==
    \/ CodecEncrypt /\ UNCHANGED deviceVars
    \/ CodecDecrypt /\ UNCHANGED deviceVars

SpecCodec == InitCodec /\ [][NextCodec]_vars

\* --------------------------------------------------------- keypad harness
\* handleKeyPress(keyIndex) as keypadTask calls it, dt ms after the previous
\* call: xSemaphoreTake, the switch, xSemaphoreGive
PressKey(keyIndex, dt) ==
    /\ nPresses < MaxPresses
    /\ lvglMutex = Free
    /\ now' = now + dt
    /\ handleKeyPress(keyIndex, now')
    /\ nPresses' = nPresses + 1
    /\ lastDispatch' = [key |-> keyIndex, screen |-> currentScreen]
    /\ UNCHANGED <<bleVars, batVars, taskVars, kp, nScans, pad, serial2Rx, rxHist,
                   nArrivals, nEchoed, codecVars>>

\* the times between two presses: in quick succession, or a pause as long as
\* the T9 timeout
PressGaps == {DtQuick, T9_TIMEOUT}

\* the keys pressed on each screen: every key on the Menu; elsewhere the four
\* function keys, "1" (five glyphs), "2" and "3" (four glyphs each)
KeysOn(screen) == IF screen = "MENU" THEN 0..15 ELSE {0, 1, 2, 3, 7, 11, 15}

\* the device after "1" on the Menu and n presses of "2", each T9_TIMEOUT ms
\* after the one before: n letters 'A' composed on the RadioEntry screen
Typed(n) ==
    /\ currentScreen = "LORA"
    /\ messageBuffer = [i \in 1..n |-> 65]
    /\ messageLen = n
    /\ ui_lora_input = messageBuffer
    /\ lastKeyPressed = 1
    /\ t9CharIndex = 0
    /\ lastKeyTime = (n + 1) * T9_TIMEOUT
    /\ now = lastKeyTime
    /\ lastDispatch = [key |-> 1, screen |-> "LORA"]

\* the device after "1" on the Menu at boot: RadioEntry with an empty
\* MessageBuffer and an InputSession no key has touched
Entered ==
    /\ currentScreen = "LORA"
    /\ t9CharIndex = 0
    /\ lastKeyPressed = NoKey
    /\ lastKeyTime = 0
    /\ messageBuffer = <<>>
    /\ messageLen = 0
    /\ ui_lora_input = <<>>
    /\ now = DtQuick
    /\ lastDispatch = [key |-> 0, screen |-> "MENU"]

\* the keypad specification starts from the device as booted, or with
\* PrefillLen characters typed
InitKeys == CodecIdle /\ InitIdle /\ (Booted \/ Typed(PrefillLen))

NextKeys ==
    \E keyIndex \in KeysOn(currentScreen), dt \in PressGaps :
        PressKey(keyIndex, dt) /\ UNCHANGED taps

SpecKeys == InitKeys /\ [][NextKeys]_vars

\* -------------------------------------------------------- multi-tap harness
\* one non-function key pressed again and again on the RadioEntry screen, each
\* press just inside or just outside the T9 timeout after the one before
TapGaps == {T9_TIMEOUT - 1, T9_TIMEOUT}

InitTap == CodecIdle /\ InitIdle /\ Entered

NextTap ==
    \E keyIndex \in {k \in 0..15 : ~isSpecialKey(k)}, dt \in TapGaps :
        /\ taps = <<>> \/ keyIndex = lastDispatch.key
        /\ PressKey(keyIndex, dt)
        /\ taps' = Append(taps, dt)

SpecTap == InitTap /\ [][NextTap]_vars

\* ------------------------------------------------------------------ tasks
Goto(t, label) == pc' = [pc EXCEPT ![t] = label]

\* mutant: xSemaphoreTake returns without waiting for the mutex to be free
Take_NoWait(t) == lvglMutex' = t

\* xSemaphoreTake(lvglMutex, portMAX_DELAY) by task t: returns once the mutex is
\* free, and t then holds it
Take(t) == lvglMutex = Free /\ lvglMutex' = t

\* mutant: xSemaphoreGive leaves the mutex with its holder
Give_Keeps == UNCHANGED lvglMutex

\* xSemaphoreGive(lvglMutex)
Give == lvglMutex' = Free

\* (millis() - debounceTime) > 150
DEBOUNCE_MS == 150

\* the keys the keypad task is given in the device specification: "1", "2"
\* and Send; -1 is scanKeypad() finding no key down
ScanKeys == {-1, 0, 1, 11}

\* keypadTask: an iteration whose scan differs from lastKey, dt ms after the
\* iteration modelled before it (iterations that scan lastKey again change only
\* the clock)
KpScan(key, dt) ==
    /\ pc["keypad"] = "scan"
    /\ nScans < MaxScans
    /\ key # kp.lastKey
    /\ nScans' = nScans + 1
    /\ now' = now + dt
    /\ IF key >= 0 /\ (now' - kp.debounceTime) > DEBOUNCE_MS
       THEN /\ kp' = [kp EXCEPT !.key = key]
            /\ Goto("keypad", "take")
       ELSE /\ kp' = [kp EXCEPT !.key = key, !.lastKey = key]
            /\ UNCHANGED pc
    /\ UNCHANGED <<handlerVars, bleVars, batVars, lvglMutex, lora, bt, nPresses,
                   lastDispatch, taps, pad, serial2Rx, rxHist, nArrivals, nEchoed,
                   codecVars>>

\* handleKeyPress: xSemaphoreTake
KpTake ==
    /\ pc["keypad"] = "take"
    /\ Take("keypad")
    /\ Goto("keypad", "held")
    /\ UNCHANGED <<handlerVars, bleVars, batVars, lora, bt, keyVars, serial2Rx,
                   rxHist, nArrivals, nEchoed, codecVars>>

\* handleKeyPress: the switch on currentScreen, run to its end from position at
KpDispatch(at) ==
    /\ pc["keypad"] = at
    /\ handleKeyPress(kp.key, now)
    /\ nPresses' = nPresses + 1
    /\ lastDispatch' = [key |-> kp.key, screen |-> currentScreen]
    /\ Goto("keypad", "give")
    /\ UNCHANGED <<bleVars, batVars, lvglMutex, lora, bt, now, kp, taps, nScans, pad,
                   serial2Rx, rxHist, nArrivals, nEchoed, codecVars>>

\* handleKeyPress between its take and its give, as one step
KpHandle == KpDispatch("held")

\* handleKeyPress: xSemaphoreGive; then debounceTime = millis(); lastKey = key
KpGive ==
    /\ pc["keypad"] = "give"
    /\ Give
    /\ kp' = [kp EXCEPT !.debounceTime = now, !.lastKey = kp.key]
    /\ Goto("keypad", "scan")
    /\ UNCHANGED <<handlerVars, bleVars, batVars, lora, bt, now, nPresses,
                   lastDispatch, taps, nScans, pad, serial2Rx, rxHist, nArrivals,
                   nEchoed, codecVars>>

\* index of the first '\n' of data, 0 when it holds none
FirstLF(data) ==
    IF \E i \in 1..Len(data) : data[i] = LF
    THEN CHOOSE i \in 1..Len(data) : data[i] = LF /\ \A j \in 1..(i - 1) : data[j] # LF
    ELSE 0

\* Serial2.readStringUntil('\n'): the bytes before the terminator, which is
\* consumed; everything received when no terminator comes before the timeout
ReadUntilLF(data) ==
    IF FirstLF(data) = 0 THEN data ELSE SubSeq(data, 1, FirstLF(data) - 1)

\* what readStringUntil leaves in the receive buffer
RestAfterLF(data) ==
    IF FirstLF(data) = 0 THEN <<>> ELSE SubSeq(data, FirstLF(data) + 1, Len(data))

\* the isxdigit loop of loraTask
IsHexLine(msg) == \A i \in 1..Len(msg) : IsXDigit(msg[i])

\* mutant: hex lines of any length are handed to decryptMessage
LoraDisplay_AnyLength(incomingMsg, enc) ==
    IF enc /\ IsHexLine(incomingMsg) THEN decryptMessage(incomingMsg) ELSE incomingMsg

\* displayMsg: decrypted when encryption is on and the line is 32 or more hex digits
LoraDisplay(incomingMsg, enc) ==
    IF enc /\ Len(incomingMsg) >= 32 /\ IsHexLine(incomingMsg)
    THEN decryptMessage(incomingMsg)
    ELSE incomingMsg

\* "< " + displayMsg + "\n"
RecvEntry(displayMsg) == TxtRecv \o displayMsg \o <<LF>>

\* loraTask: Serial2.available(), readStringUntil and, for a non-empty line, the
\* classification; an empty line goes straight to vTaskDelay
LoraRead ==
    /\ pc["lora"] = "poll"
    /\ serial2Rx # <<>>
    /\ LET f == Head(serial2Rx)
           line == ReadUntilLF(f.data)
           rest == RestAfterLF(f.data)
           shown == LoraDisplay(line, encryptionEnabled)
       IN /\ serial2Rx' = IF rest = <<>> THEN Tail(serial2Rx)
                          ELSE <<[f EXCEPT !.data = rest]>> \o Tail(serial2Rx)
          /\ IF Len(line) > 0
             THEN /\ lora' = [lora EXCEPT !.incomingMsg = line, !.displayMsg = shown,
                                          !.from = f.src, !.plain = f.plain,
                                          !.cipher = f.enc,
                                          !.encRead = encryptionEnabled]
                  /\ rxHist' = Append(rxHist, shown)
                  /\ Goto("lora", "take")
             ELSE /\ lora' = [lora EXCEPT !.incomingMsg = line]
                  /\ UNCHANGED <<rxHist, pc>>
    /\ UNCHANGED <<handlerVars, bleVars, batVars, lvglMutex, bt, keyVars, nArrivals,
                   nEchoed, codecVars>>

LoraTake ==
    /\ pc["lora"] = "take"
    /\ Take("lora")
    /\ Goto("lora", "held")
    /\ UNCHANGED <<handlerVars, bleVars, batVars, lora, bt, keyVars, serial2Rx,
                   rxHist, nArrivals, nEchoed, codecVars>>

\* lv_textarea_add_text(ui_lora_log, ..) reads the text it is about to extend
LoraLogRead ==
    /\ pc["lora"] = "held"
    /\ lora' = [lora EXCEPT !.logCopy = ui_lora_log]
    /\ Goto("lora", "write")
    /\ UNCHANGED <<handlerVars, bleVars, batVars, lvglMutex, bt, keyVars, serial2Rx,
                   rxHist, nArrivals, nEchoed, codecVars>>

\* .. and stores the extended text; monitorMsgCount++, the Monitor log and the
\* Monitor status follow
LoraLogWrite ==
    /\ pc["lora"] = "write"
    /\ ui_lora_log' = lora.logCopy \o RecvEntry(lora.displayMsg)
    /\ monitorMsgCount' = monitorMsgCount + 1
    /\ ui_monitor_log' = ui_monitor_log \o RecvEntry(lora.displayMsg)
    /\ ui_monitor_status' = [text |-> "Escutando", msgs |-> monitorMsgCount']
    /\ Goto("lora", "give")
    /\ UNCHANGED <<navVars, t9Vars, bufVars, ui_bt_log, ui_bt_status, serial2Tx,
                   bleVars, batVars, lvglMutex, lora, bt, keyVars, serial2Rx, rxHist,
                   nArrivals, nEchoed, codecVars>>

LoraGive ==
    /\ pc["lora"] = "give"
    /\ Give
    /\ Goto("lora", "poll")
    /\ UNCHANGED <<handlerVars, bleVars, batVars, lora, bt, keyVars, serial2Rx,
                   rxHist, nArrivals, nEchoed, codecVars>>


\* isspace(c)
IsSpace(c) == c \in {32, 9, 10, 11, 12, 13}

\* String::trim(): leading and trailing whitespace removed
RECURSIVE TrimLeft(_)
TrimLeft(s) == IF s # <<>> /\ IsSpace(Head(s)) THEN TrimLeft(Tail(s)) ELSE s

RECURSIVE TrimRight(_)
TrimRight(s) ==
    IF s # <<>> /\ IsSpace(s[Len(s)]) THEN TrimRight(SubSeq(s, 1, Len(s) - 1)) ELSE s

Trim(s) == TrimRight(TrimLeft(s))

\* String(rxValue.c_str()): the bytes before the first NUL
CStr(v) ==
    IF \E i \in 1..Len(v) : v[i] = 0
    THEN SubSeq(v, 1, (CHOOSE i \in 1..Len(v) : v[i] = 0 /\ \A j \in 1..(i - 1) : v[j] # 0) - 1)
    ELSE v

\* "< " + msg + "\n> LoRa: OK\n"
BtLogEntry(msg) == TxtRecv \o msg \o TxtLoraOk

\* "[BT]> " + msg + "\n"
BtLoraEntry(msg) == TxtBtTag \o msg \o <<LF>>

\* "Enviado via LoRa: " + msg
TxtEnviado == <<69, 110, 118, 105, 97, 100, 111, 32, 118, 105, 97, 32, 76, 111, 82, 97, 58, 32>>

\* bluetoothTask up to bleInitialized = true
BtInit ==
    /\ pc["bluetooth"] = "init"
    /\ bleInitialized' = TRUE
    /\ Goto("bluetooth", "check")
    /\ UNCHANGED <<handlerVars, bleConnected, bleRxBuffer, newBleData, bleWrites, bleTx,
                   batVars, lvglMutex, lora, bt, keyVars, serial2Rx, rxHist, nArrivals,
                   nEchoed, codecVars>>

\* if (newBleData && bleRxBuffer.length() > 0): the iteration that finds it true
BtCheck ==
    /\ pc["bluetooth"] = "check"
    /\ newBleData /\ Len(bleRxBuffer) > 0
    /\ Goto("bluetooth", "clear")
    /\ UNCHANGED <<handlerVars, bleVars, batVars, lvglMutex, lora, bt, keyVars,
                   serial2Rx, rxHist, nArrivals, nEchoed, codecVars>>

\* newBleData = false
BtClearFlag ==
    /\ pc["bluetooth"] = "clear"
    /\ newBleData' = FALSE
    /\ Goto("bluetooth", "copy")
    /\ UNCHANGED <<handlerVars, bleConnected, bleInitialized, bleRxBuffer, bleWrites,
                   bleTx, batVars, lvglMutex, lora, bt, keyVars, serial2Rx, rxHist,
                   nArrivals, nEchoed, codecVars>>

\* String msg = bleRxBuffer
BtCopy ==
    /\ pc["bluetooth"] = "copy"
    /\ bt' = [bt EXCEPT !.msg = bleRxBuffer]
    /\ Goto("bluetooth", "reset")
    /\ UNCHANGED <<handlerVars, bleVars, batVars, lvglMutex, lora, keyVars, serial2Rx,
                   rxHist, nArrivals, nEchoed, codecVars>>

\* mutant: the mailbox is not emptied after the copy
BtReset_KeepsBuffer ==
    /\ pc["bluetooth"] = "reset"
    /\ bt' = [bt EXCEPT !.msg = Trim(bt.msg)]
    /\ Goto("bluetooth", IF Len(Trim(bt.msg)) > 0 THEN "send" ELSE "check")
    /\ UNCHANGED <<handlerVars, bleVars, batVars, lvglMutex, lora, keyVars, serial2Rx,
                   rxHist, nArrivals, nEchoed, codecVars>>

\* mutant: the message is forwarded as copied, without msg.trim()
BtReset_NoTrim ==
    /\ pc["bluetooth"] = "reset"
    /\ bleRxBuffer' = <<>>
    /\ Goto("bluetooth", IF Len(bt.msg) > 0 THEN "send" ELSE "check")
    /\ UNCHANGED <<handlerVars, bleConnected, bleInitialized, newBleData, bleWrites,
                   bleTx, batVars, lvglMutex, lora, bt, keyVars, serial2Rx, rxHist,
                   nArrivals, nEchoed, codecVars>>

\* bleRxBuffer = ""; msg.trim(); if (msg.length() > 0)
BtReset ==
    /\ pc["bluetooth"] = "reset"
    /\ bleRxBuffer' = <<>>
    /\ bt' = [bt EXCEPT !.msg = Trim(bt.msg)]
    /\ Goto("bluetooth", IF Len(Trim(bt.msg)) > 0 THEN "send" ELSE "check")
    /\ UNCHANGED <<handlerVars, bleConnected, bleInitialized, newBleData, bleWrites,
                   bleTx, batVars, lvglMutex, lora, keyVars, serial2Rx, rxHist,
                   nArrivals, nEchoed, codecVars>>

\* Serial2.println(encryptionEnabled ? encryptMessage(msg) : msg), returning
\* from position at
BtPrintln(at) ==
    /\ pc["bluetooth"] = at
    /\ serial2Tx' = Append(serial2Tx,
                           Println(IF encryptionEnabled THEN encryptMessage(bt.msg)
                                   ELSE bt.msg,
                                   "bt", bt.msg, encryptionEnabled))
    /\ Goto("bluetooth", "take")
    /\ UNCHANGED <<navVars, t9Vars, bufVars, logVars, monVars, ui_bt_status, bleVars,
                   batVars, lvglMutex, lora, bt, keyVars, serial2Rx, rxHist, nArrivals,
                   nEchoed, codecVars>>

\* the call as one step
BtSend == BtPrintln("send")

BtTake ==
    /\ pc["bluetooth"] = "take"
    /\ Take("bluetooth")
    /\ Goto("bluetooth", "held")
    /\ UNCHANGED <<handlerVars, bleVars, batVars, lora, bt, keyVars, serial2Rx,
                   rxHist, nArrivals, nEchoed, codecVars>>

\* the Wireless log entry is added; lv_textarea_add_text(ui_lora_log, ..) reads
\* the text it is about to extend
BtLogRead ==
    /\ pc["bluetooth"] = "held"
    /\ ui_bt_log' = ui_bt_log \o BtLogEntry(bt.msg)
    /\ bt' = [bt EXCEPT !.logCopy = ui_lora_log]
    /\ Goto("bluetooth", "write")
    /\ UNCHANGED <<navVars, t9Vars, bufVars, ui_lora_log, ui_monitor_log, monVars,
                   ui_bt_status, serial2Tx, bleVars, batVars, lvglMutex, lora, keyVars,
                   serial2Rx, rxHist, nArrivals, nEchoed, codecVars>>

\* .. and stores the extended text
BtLogWrite ==
    /\ pc["bluetooth"] = "write"
    /\ ui_lora_log' = bt.logCopy \o BtLoraEntry(bt.msg)
    /\ Goto("bluetooth", "give")
    /\ UNCHANGED <<navVars, t9Vars, bufVars, ui_monitor_log, ui_bt_log, monVars,
                   ui_bt_status, serial2Tx, bleVars, batVars, lvglMutex, lora, bt,
                   keyVars, serial2Rx, rxHist, nArrivals, nEchoed, codecVars>>

BtGive ==
    /\ pc["bluetooth"] = "give"
    /\ Give
    /\ Goto("bluetooth", "echo")
    /\ UNCHANGED <<handlerVars, bleVars, batVars, lora, bt, keyVars, serial2Rx,
                   rxHist, nArrivals, nEchoed, codecVars>>

\* if (bleConnected && pTxCharacteristic != NULL): setValue and notify
BtEcho ==
    /\ pc["bluetooth"] = "echo"
    /\ bleTx' = IF bleConnected THEN Append(bleTx, TxtEnviado \o bt.msg) ELSE bleTx
    /\ Goto("bluetooth", "check")
    /\ UNCHANGED <<handlerVars, bleConnected, bleInitialized, bleRxBuffer, newBleData,
                   bleWrites, batVars, lvglMutex, lora, bt, keyVars, serial2Rx, rxHist,
                   nArrivals, nEchoed, codecVars>>


\* what a wireless client writes to the RX characteristic: "a", "a\nb", "\n"
BleValues == {<<97>>, <<97, LF, 98>>, <<LF>>}

\* MyServerCallbacks::onConnect
OnConnect ==
    /\ bleInitialized /\ ~bleConnected
    /\ pc[BleHost] = "idle"
    /\ bleConnected' = TRUE
    /\ UNCHANGED <<handlerVars, bleInitialized, bleRxBuffer, newBleData, bleWrites,
                   bleTx, batVars, taskVars, keyVars, serial2Rx, rxHist, nArrivals,
                   nEchoed, codecVars>>

\* MyServerCallbacks::onDisconnect
OnDisconnect ==
    /\ bleConnected
    /\ pc[BleHost] = "idle"
    /\ bleConnected' = FALSE
    /\ UNCHANGED <<handlerVars, bleInitialized, bleRxBuffer, newBleData, bleWrites,
                   bleTx, batVars, taskVars, keyVars, serial2Rx, rxHist, nArrivals,
                   nEchoed, codecVars>>

\* MyCharacteristicCallbacks::onWrite: bleRxBuffer = String(rxValue.c_str())
OnWriteBuf(v) ==
    /\ bleConnected
    /\ pc[BleHost] = "idle"
    /\ bleWrites' = Append(bleWrites, v)
    /\ IF Len(v) > 0
       THEN bleRxBuffer' = CStr(v) /\ Goto(BleHost, "flag")
       ELSE UNCHANGED <<bleRxBuffer, pc>>
    /\ UNCHANGED <<handlerVars, bleConnected, bleInitialized, newBleData, bleTx,
                   batVars, lvglMutex, lora, bt, keyVars, serial2Rx, rxHist, nArrivals,
                   nEchoed, codecVars>>

\* MyCharacteristicCallbacks::onWrite: newBleData = true
OnWriteFlag ==
    /\ pc[BleHost] = "flag"
    /\ newBleData' = TRUE
    /\ Goto(BleHost, "idle")
    /\ UNCHANGED <<handlerVars, bleConnected, bleInitialized, bleRxBuffer, bleWrites,
                   bleTx, batVars, lvglMutex, lora, bt, keyVars, serial2Rx, rxHist,
                   nArrivals, nEchoed, codecVars>>

\* A float between 2 V and 8 V is a whole number of 2^-22 V (an even number from
\* 4 V up): a voltage is held as that number, so that 3.0f is 3 * 2^22 exactly
\* and 3.6f, 4.2f are the floats nearest to 3.6 and 4.2, both just below them.
FloatUnit == 4194304

\* the float a decimal literal of so many millivolts converts to
FloatOf(mv) ==
    LET twice == (mv \div 1000) * 2 * FloatUnit + ((mv % 1000) * (FloatUnit \div 4)) \div 125
        ulp == IF mv >= 4000 THEN 2 ELSE 1
        near == (twice + ulp) \div (2 * ulp)
    IN near * ulp

\* voltageToPercent. The float is compared with the doubles 4.2 and 3.0;
\* 4.2 * 2^22 = 17616076.8, so voltage >= 4.2 is voltage >= 17616077 units.
\* (voltage - 3.0) is exact in double, and (uint8_t)(.. / 1.2 * 100) is the
\* floor of the exact quotient: between 3.0 and 4.2 the exact value
\* (voltage - 3 * 2^22) * 250 / (3 * 2^22) is never within 2^-24 of an integer,
\* far more than the rounding of the two double operations.
voltageToPercent(voltage) ==
    IF voltage >= 17616077 THEN 100
    ELSE IF voltage <= 3 * FloatUnit THEN 0
    ELSE ((voltage - 3 * FloatUnit) * 250) \div (3 * FloatUnit)

\* sprintf("%.2f", batteryVoltage): the voltage in hundredths of a volt
FormatVolts(voltage) == (voltage * 25 + (FloatUnit \div 8)) \div (FloatUnit \div 4)

\* the readings readBatteryVoltage() returns in the device specification
Readings == {FloatOf(3600)}

\* batteryTask: batteryVoltage = readBatteryVoltage()
BatSample(v) ==
    /\ pc["battery"] = "sample"
    /\ nSamples < MaxSamples
    /\ nSamples' = nSamples + 1
    /\ batteryVoltage' = v
    /\ Goto("battery", "take")
    /\ UNCHANGED <<handlerVars, bleVars, ui_battery, ui_header, lvglMutex, lora, bt,
                   keyVars, serial2Rx, rxHist, nArrivals, nEchoed, codecVars>>

BatTake ==
    /\ pc["battery"] = "take"
    /\ Take("battery")
    /\ Goto("battery", "held")
    /\ UNCHANGED <<handlerVars, bleVars, batVars, lora, bt, keyVars, serial2Rx,
                   rxHist, nArrivals, nEchoed, codecVars>>

\* the screens in the order setup() creates them, each calling createHeader
CreatedScreens == <<"MENU", "LORA", "MONITOR", "BLUETOOTH", "BATTERY">>

\* lv_obj_t *ui_header_battery once setup() is over: every createHeader stores
\* its label in it, so it points at the label of the screen created last
ui_header_battery == CreatedScreens[Len(CreatedScreens)]

\* the Telemetry widgets when that screen is active, and the one header label
\* ui_header_battery points at
BatUpdate ==
    /\ pc["battery"] = "held"
    /\ ui_battery' =
         IF currentScreen = "BATTERY"
         THEN [voltage |-> FormatVolts(batteryVoltage),
               bar |-> voltageToPercent(batteryVoltage)]
         ELSE ui_battery
    /\ ui_header' = [ui_header EXCEPT ![ui_header_battery] = FormatVolts(batteryVoltage)]
    /\ Goto("battery", "give")
    /\ UNCHANGED <<handlerVars, bleVars, batteryVoltage, nSamples, lvglMutex, lora, bt,
                   keyVars, serial2Rx, rxHist, nArrivals, nEchoed, codecVars>>

BatGive ==
    /\ pc["battery"] = "give"
    /\ Give
    /\ Goto("battery", "sample")
    /\ UNCHANGED <<handlerVars, bleVars, batVars, lora, bt, keyVars, serial2Rx,
                   rxHist, nArrivals, nEchoed, codecVars>>

\* lvglTask: xSemaphoreTake
LvglTake ==
    /\ pc["lvgl"] = "take"
    /\ Take("lvgl")
    /\ Goto("lvgl", "held")
    /\ UNCHANGED <<handlerVars, bleVars, batVars, lora, bt, keyVars, serial2Rx,
                   rxHist, nArrivals, nEchoed, codecVars>>

\* lvglTask: lv_timer_handler() renders what it reads; xSemaphoreGive
LvglGive ==
    /\ pc["lvgl"] = "held"
    /\ Give
    /\ Goto("lvgl", "take")
    /\ UNCHANGED <<handlerVars, bleVars, batVars, lora, bt, keyVars, serial2Rx,
                   rxHist, nArrivals, nEchoed, codecVars>>

\* a frame as the radio module hands it to Serial2
Frame(data, src, plain, enc) == [data |-> data, src |-> src, plain |-> plain, enc |-> enc]

\* what other stations send in the device specification: "hi\n" and "\n"
InboundLines == {<<104, 105, LF>>, <<LF>>}

\* a frame of another station reaches Serial2
RadioArrive(data) ==
    /\ nArrivals' = nArrivals + 1
    /\ serial2Rx' = Append(serial2Rx, Frame(data, "radio", <<>>, FALSE))
    /\ UNCHANGED <<handlerVars, bleVars, batVars, taskVars, keyVars, rxHist, nEchoed,
                   codecVars>>

\* a frame this program wrote is delivered, byte for byte, to the reader of a
\* station running this program
RadioEcho ==
    /\ nEchoed < Len(serial2Tx)
    /\ nEchoed' = nEchoed + 1
    /\ serial2Rx' = Append(serial2Rx, serial2Tx[nEchoed + 1])
    /\ UNCHANGED <<handlerVars, bleVars, batVars, taskVars, keyVars, rxHist, nArrivals,
                   codecVars>>

\* the gap between two keypad scans that differ
ScanGaps == {DtQuick}

Next ==
    \/ \E key \in ScanKeys, dt \in ScanGaps : KpScan(key, dt)
    \/ KpTake \/ KpHandle \/ KpGive
    \/ LoraRead \/ LoraTake \/ LoraLogRead \/ LoraLogWrite \/ LoraGive
    \/ BtInit \/ BtCheck \/ BtClearFlag \/ BtCopy \/ BtReset \/ BtSend
    \/ BtTake \/ BtLogRead \/ BtLogWrite \/ BtGive \/ BtEcho
    \/ OnConnect \/ OnDisconnect \/ OnWriteFlag
    \/ \E v \in BleValues : Len(bleWrites) < MaxBleWrites /\ OnWriteBuf(v)
    \/ \E v \in Readings : BatSample(v)
    \/ BatTake \/ BatUpdate \/ BatGive
    \/ LvglTake \/ LvglGive
    \/ \E data \in InboundLines : nArrivals < MaxArrivals /\ RadioArrive(data)
    \/ RadioEcho

\* the device once setup() has created the tasks
Init == InitDevice /\ CodecIdle

Spec == Init /\ [][Next]_vars


\* ----------------------------------------------------------- reader harness
\* a line of n hex digits, upper and lower case
HexLine(n) ==
    [i \in 1..n |-> IF i % 3 = 0 THEN 97 + (i % 6) ELSE HexChar((i * 7) % 16)]

\* what the radio-link reader specification receives: hex lines of every length
\* up to MaxLineLen, a ciphertext, and text that is not hex
ReaderLines ==
    { HexLine(n) \o <<LF>> : n \in 0..MaxLineLen }
      \cup { encryptMessage(<<79, 75>>) \o <<LF>>,
             HexLine(34) \o <<CR, LF>>,
             <<104, 105, LF>> }

\* loraTask's steps
LoraStep == LoraRead \/ LoraTake \/ LoraLogRead \/ LoraLogWrite \/ LoraGive

\* the radio-link reader alone; encryption is enabled
NextReader ==
    \/ \E data \in ReaderLines : nArrivals < MaxReaderLines /\ RadioArrive(data)
    \/ LoraStep

\* loraTask is a FreeRTOS task that blocks only on lvglMutex, which no other
\* task holds here: a step it can take is taken
SpecReader ==
    /\ Init
    /\ [][NextReader]_vars
    /\ WF_vars(LoraStep)


\* ---------------------------------------------------------- monitor harness
\* the keys the keypad task is given in the Monitor specification: "2" (opens
\* the Monitor from the Menu), Back and Delete; -1 is no key down
MonitorKeys == {-1, 1, 7, 15}

\* the keypad task and the radio-link reader, with lines arriving
NextMonitor ==
    \/ \E key \in MonitorKeys, dt \in ScanGaps : KpScan(key, dt)
    \/ KpTake \/ KpHandle \/ KpGive
    \/ LoraStep
    \/ \E data \in InboundLines : nArrivals < MaxReaderLines /\ RadioArrive(data)

SpecMonitor == Init /\ [][NextMonitor]_vars

\* ---------------------------------------------------------- mailbox harness
\* bluetoothTask's steps
BtStep ==
    \/ BtInit \/ BtCheck \/ BtClearFlag \/ BtCopy \/ BtReset \/ BtSend
    \/ BtTake \/ BtLogRead \/ BtLogWrite \/ BtGive \/ BtEcho

\* the wireless-link reader and the NimBLE host task that runs the callbacks
NextMailbox ==
    \/ BtStep
    \/ OnConnect \/ OnDisconnect \/ OnWriteFlag
    \/ \E v \in BleValues : Len(bleWrites) < MaxMailboxWrites /\ OnWriteBuf(v)

SpecMailbox == Init /\ [][NextMailbox]_vars

\* ----------------------------------------------------------- cipher harness
\* The three callers run encryptMessage / decryptMessage at the same time, each
\* on the one global aes128. A call is aes128.setKey(AES_KEY, 16), which
\* rewrites the object, then one encryptBlock / decryptBlock per 16 bytes, which
\* reads it. Only the keypad task's call is made under lvglMutex, so nothing
\* orders the calls: a block operation that runs while another caller is
\* inside setKey races with that write, and what it produces is not determined.

\* what each caller passes: Send a 16-character message, the reader the
\* ciphertext of "OK", the wireless forward "a"
CallInput(c) ==
    CASE c = "keypad" -> [i \in 1..16 |-> 65]
      [] c = "lora" -> encryptMessage(<<79, 75>>)
      [] OTHER -> <<97>>

\* the bytes the block loop of the call works on
CallBytes(c, input) ==
    IF c = "lora" THEN DecCipher(input) ELSE EncInput(input)

\* block number i (from 0) of bytes
BlockAt(bytes, i) == [k \in 1..16 |-> bytes[16 * i + k]]

\* what a block operation may produce: the block cipher's output, or, when the
\* cipher object is being rewritten under it, also a block that is not
RacedBlock == [k \in 1..16 |-> 0]
BlockResults(c, blk) ==
    {IF c = "lora" THEN DecBlock(blk) ELSE EncBlock(blk)}
      \cup (IF aesWriters \ {c} # {} THEN {RacedBlock} ELSE {})

\* the String the call returns from its output bytes: the hex of them, or the
\* bytes with the PKCS7 padding removed
CallResult(c, out) ==
    IF c # "lora" THEN ToHex(out)
    ELSE LET padLen == IF out[Len(out)] > 16 THEN 0 ELSE out[Len(out)]
         IN SubSeq(out, 1, Len(out) - padLen)

\* the call is entered: lengths computed, buffers filled
CallBegin(c) ==
    /\ call[c].pc = "idle"
    /\ call[c].n < MaxCalls
    /\ call' = [call EXCEPT ![c] = [pc |-> "setKey", input |-> CallInput(c), i |-> 0,
                                    out |-> <<>>, n |-> call[c].n + 1]]
    /\ UNCHANGED aesWriters

\* aes128.setKey starts writing the cipher object
SetKeyBegin(c) ==
    /\ call[c].pc = "setKey"
    /\ aesWriters' = aesWriters \cup {c}
    /\ call' = [call EXCEPT ![c].pc = "keying"]

\* aes128.setKey returns
SetKeyEnd(c) ==
    /\ call[c].pc = "keying"
    /\ aesWriters' = aesWriters \ {c}
    /\ call' = [call EXCEPT ![c].pc = "blocks"]

\* one encryptBlock / decryptBlock of the loop
BlockOp(c) ==
    /\ call[c].pc = "blocks"
    /\ 16 * call[c].i < Len(CallBytes(c, call[c].input))
    /\ \E blk \in BlockResults(c, BlockAt(CallBytes(c, call[c].input), call[c].i)) :
          call' = [call EXCEPT ![c].out = @ \o blk, ![c].i = @ + 1]
    /\ UNCHANGED aesWriters

\* the loop is over: the result String is built and returned
CallEnd(c) ==
    /\ call[c].pc = "blocks"
    /\ 16 * call[c].i >= Len(CallBytes(c, call[c].input))
    /\ call' = [call EXCEPT ![c].pc = "idle"]
    /\ UNCHANGED aesWriters

\* a codec call touches nothing of the device
CipherOnly == UNCHANGED <<deviceVars, codecIn, codecHex, codecOut, codecPc>>

NextCipher ==
    \/ \E c \in Callers : CallBegin(c) /\ CipherOnly
    \/ \E c \in Callers : SetKeyBegin(c) /\ CipherOnly
    \/ \E c \in Callers : SetKeyEnd(c) /\ CipherOnly
    \/ \E c \in Callers : BlockOp(c) /\ CipherOnly
    \/ \E c \in Callers : CallEnd(c) /\ CipherOnly

SpecCipher == Init /\ [][NextCipher]_vars

\* -------------------------------------------------------- telemetry harness
\* about 0.02 V, a step that keeps a float a float
GaugeStep == 2 * (FloatUnit \div 100)

\* the readings of the Telemetry specification: the floats of 3.0, 3.6, 4.2 and
\* 5.0 with their neighbours, 2.9, and a sweep from 3.0 V upwards
GaugeReadings ==
    {FloatOf(2900), FloatOf(3000), FloatOf(3000) + 1, FloatOf(3600), FloatOf(3600) + 1,
     FloatOf(4200), FloatOf(4200) + 2, FloatOf(5000)}
      \cup {FloatOf(3000) + k * GaugeStep : k \in 1..MaxGaugeSteps}

\* the keys of the Telemetry specification: "4" (opens Telemetry) and Back
GaugeKeys == {-1, 4, 7}

\* the keypad task and the telemetry sampler
NextGauge ==
    \/ \E key \in GaugeKeys, dt \in ScanGaps : KpScan(key, dt)
    \/ KpTake \/ KpHandle \/ KpGive
    \/ \E v \in GaugeReadings : BatSample(v)
    \/ BatTake \/ BatUpdate \/ BatGive

SpecGauge == Init /\ [][NextGauge]_vars

\* ------------------------------------------------------------ cycle harness
\* the device after "1" on the Menu and n presses of the key k, each DtQuick ms
\* after the one before: every press after the first took the cycle branch, so
\* the buffer holds one glyph and t9CharIndex has been incremented n - 1 times
Tapped(k, n) ==
    /\ currentScreen = "LORA"
    /\ t9CharIndex = U8(n - 1)
    /\ lastKeyPressed = k
    /\ lastKeyTime = (n + 1) * DtQuick
    /\ now = lastKeyTime
    /\ messageBuffer = <<getT9Char(k, U8(n - 1))>>
    /\ messageLen = 1
    /\ ui_lora_input = messageBuffer
    /\ lastDispatch = [key |-> k, screen |-> "LORA"]

InitCycle ==
    /\ CodecIdle
    /\ InitIdle
    /\ \E k \in {k \in 0..15 : ~isSpecialKey(k)} : Tapped(k, PriorTaps)

\* the same key again, just inside or just outside the T9 timeout
NextCycle ==
    \E dt \in TapGaps :
        /\ PressKey(lastKeyPressed, dt)
        /\ taps' = Append(taps, dt)

SpecCycle == InitCycle /\ [][NextCycle]_vars

\* --------------------------------------------------------- classify harness
\* the keys of the classification specification: "5" on the Menu toggles the
\* encryption flag
ClassifyKeys == {-1, 5}

\* the keypad task toggling the flag while the radio-link reader receives
NextClassify ==
    \/ \E key \in ClassifyKeys, dt \in ScanGaps : KpScan(key, dt)
    \/ KpTake \/ KpHandle \/ KpGive
    \/ LoraStep
    \/ \E data \in ReaderLines : nArrivals < MaxArrivals /\ RadioArrive(data)

SpecClassify == Init /\ [][NextClassify]_vars

\* ---------------------------------------------------------- decode harness
\* byte i of the test plaintext number p of n bytes: text closed by a padding
\* byte of 16, 1 or 5, or by a byte that is no padding length
PaddedByte(p, n, i) ==
    IF i < n THEN 32 + ((i * 7 + p) % 90)
    ELSE CASE p = 1 -> 16
           [] p = 2 -> 1
           [] p = 3 -> 5
           [] OTHER -> 200

\* the hex lines the radio-link reader can hand to decryptMessage: whole blocks
\* enciphered under the key, 32 characters per block
CipherLines ==
    { ToHex(Blocks(EncBlock, [i \in 1..(16 * b) |-> PaddedByte(p, 16 * b, i)], 16 * b)) :
        b \in 1..MaxHexBlocks, p \in 1..4 }

\* what the byte in front of a zero-length allocation may hold
StrayBytes == {0, 16, 255}

InitDecode ==
    /\ InitDevice
    /\ codecIn \in CipherLines
    /\ codecHex = <<>>
    /\ codecOut = <<>>
    /\ codecPc = "line"
    /\ CipherIdle

\* a call of decryptMessage(codecIn); codecHex keeps the bytes of output[] the
\* decryptBlock loop wrote. With cipherLen = 0 the read of output[cipherLen - 1]
\* is outside the allocation and finds any byte
DecodeCall ==
    /\ codecPc = "line"
    /\ \E stray \in (IF DecCipherLen(codecIn) = 0 THEN StrayBytes ELSE {0}) :
          /\ codecOut' = decryptWith(codecIn, stray)
          /\ codecHex' = <<stray>> \o DecOutput(codecIn)
    /\ codecPc' = "unhexed"
    /\ UNCHANGED <<codecIn, aesWriters, call>>

\* the caller drops the result
DecodeDone ==
    /\ codecPc = "unhexed"
    /\ codecPc' = "dropped"
    /\ UNCHANGED <<codecIn, codecHex, codecOut, aesWriters, call>>

NextDecode ==
    \/ DecodeCall /\ UNCHANGED deviceVars
    \/ DecodeDone /\ UNCHANGED deviceVars

SpecDecode == InitDecode /\ [][NextDecode]_vars

\* --------------------------------------------------------- forward harness
\* the wireless-link reader, the NimBLE host task and the keypad task toggling
\* the encryption flag on the Menu
NextForward ==
    \/ BtStep
    \/ OnConnect \/ OnDisconnect \/ OnWriteFlag
    \/ \E v \in BleValues : Len(bleWrites) < MaxMailboxWrites /\ OnWriteBuf(v)
    \/ \E key \in ClassifyKeys, dt \in ScanGaps : KpScan(key, dt)
    \/ KpTake \/ KpHandle \/ KpGive

SpecForward == Init /\ [][NextForward]_vars

\* ------------------------------------------------------ navigation harness
\* from boot, any of the sixteen keys on whatever screen is active
NextNav ==
    \E keyIndex \in 0..15 : PressKey(keyIndex, DtQuick) /\ UNCHANGED taps

SpecNav == Init /\ [][NextNav]_vars

\* ------------------------------------------------------------ poll harness
\* vTaskDelay(pdMS_TO_TICKS(20)) at the end of each iteration of keypadTask
POLL_MS == 20

\* the keys held down in the poll specification: "5" and "6"; -1 is none
PollKeys == {-1, 5, 6}

\* the state once keypadTask starts: setup() is over, no key is down
InitPoll ==
    /\ CodecIdle
    /\ InitIdle
    /\ currentScreen = "MENU"
    /\ t9CharIndex = 0
    /\ lastKeyPressed = NoKey
    /\ lastKeyTime = 0
    /\ messageBuffer = <<>>
    /\ messageLen = 0
    /\ ui_lora_input = <<>>
    /\ now = BootMs
    /\ lastDispatch = [key |-> NoKey, screen |-> "MENU"]

\* a key goes down, or the key that is down comes up
KeyChange(key) ==
    /\ key # pad.down
    /\ pad' = [pad EXCEPT !.down = key]
    /\ UNCHANGED <<handlerVars, bleVars, batVars, taskVars, now, kp, nPresses,
                   lastDispatch, taps, nScans, linkVars, codecVars>>

\* mutant: a key is dispatched whenever it is down and the debounce has passed
KpPoll_NoEdge ==
    /\ pc["keypad"] = "scan"
    /\ now < BootMs + MaxPolls * POLL_MS
    /\ now' = now + POLL_MS
    /\ LET key == pad.down
           fresh == key # kp.key
           dispatch == key >= 0 /\ (now' - kp.debounceTime) > DEBOUNCE_MS
       IN /\ pad' = [pad EXCEPT
                       !.runSince = IF fresh THEN now' ELSE @,
                       !.run = (IF fresh THEN 0 ELSE @) + (IF dispatch THEN 1 ELSE 0),
                       !.prevAt = IF dispatch THEN pad.lastAt ELSE @,
                       !.lastAt = IF dispatch THEN now' ELSE @]
          /\ IF dispatch
             THEN /\ kp' = [kp EXCEPT !.key = key]
                  /\ Goto("keypad", "take")
             ELSE /\ kp' = [kp EXCEPT !.key = key, !.lastKey = key]
                  /\ UNCHANGED pc
    /\ UNCHANGED <<handlerVars, bleVars, batVars, lvglMutex, lora, bt, nPresses,
                   lastDispatch, taps, nScans, linkVars, codecVars>>

\* keypadTask: one iteration, POLL_MS after the one before: scanKeypad() finds
\* the key that is down; a key that differs from lastKey is dispatched when it
\* is a key and the debounce has passed, and becomes lastKey either way (after
\* handleKeyPress when it is dispatched). pad keeps, for the run of equal scans
\* this one belongs to, when it began and how often it was dispatched, and the
\* times of the last two dispatches
KpPoll ==
    /\ pc["keypad"] = "scan"
    /\ now < BootMs + MaxPolls * POLL_MS
    /\ now' = now + POLL_MS
    /\ LET key == pad.down
           fresh == key # kp.key
           dispatch == /\ key # kp.lastKey
                       /\ key >= 0 /\ (now' - kp.debounceTime) > DEBOUNCE_MS
       IN /\ pad' = [pad EXCEPT
                       !.runSince = IF fresh THEN now' ELSE @,
                       !.run = (IF fresh THEN 0 ELSE @) + (IF dispatch THEN 1 ELSE 0),
                       !.prevAt = IF dispatch THEN pad.lastAt ELSE @,
                       !.lastAt = IF dispatch THEN now' ELSE @]
          /\ IF dispatch
             THEN /\ kp' = [kp EXCEPT !.key = key]
                  /\ Goto("keypad", "take")
             ELSE /\ kp' = [kp EXCEPT !.key = key, !.lastKey = key]
                  /\ UNCHANGED pc
    /\ UNCHANGED <<handlerVars, bleVars, batVars, lvglMutex, lora, bt, nPresses,
                   lastDispatch, taps, nScans, linkVars, codecVars>>

\* handleKeyPress waits in xSemaphoreTake(lvglMutex, portMAX_DELAY) while
\* another task holds the mutex
KpWait ==
    /\ pc["keypad"] = "take"
    /\ now < BootMs + MaxPolls * POLL_MS
    /\ now' = now + POLL_MS
    /\ UNCHANGED <<handlerVars, bleVars, batVars, taskVars, kp, nPresses,
                   lastDispatch, taps, nScans, pad, linkVars, codecVars>>

NextPoll ==
    \/ \E key \in PollKeys : KeyChange(key)
    \/ KpPoll \/ KpWait
    \/ KpTake \/ KpHandle \/ KpGive

SpecPoll == InitPoll /\ [][NextPoll]_vars

\* ------------------------------------------------------------ lock harness
\* the five tasks that take lvglMutex, each with work to do: key "2" pressed
\* and released, a line from the radio, a value from the wireless peer, a
\* voltage sample, and lvglTask's endless rendering
NextLock ==
    \/ \E key \in {-1, 1}, dt \in ScanGaps : KpScan(key, dt)
    \/ KpTake \/ KpHandle \/ KpGive
    \/ LoraStep
    \/ \E data \in InboundLines : nArrivals < MaxArrivals /\ RadioArrive(data)
    \/ BtStep
    \/ OnConnect \/ OnDisconnect \/ OnWriteFlag
    \/ \E v \in BleValues : Len(bleWrites) < MaxBleWrites /\ OnWriteBuf(v)
    \/ \E v \in Readings : BatSample(v)
    \/ BatTake \/ BatUpdate \/ BatGive
    \/ LvglTake \/ LvglGive

\* the steps a task makes between xSemaphoreTake and xSemaphoreGive, the give
\* included: none of them waits for anything
HolderStep ==
    \/ KpHandle \/ KpGive
    \/ LoraLogRead \/ LoraLogWrite \/ LoraGive
    \/ BtLogRead \/ BtLogWrite \/ BtGive
    \/ BatUpdate \/ BatGive
    \/ LvglGive

\* FreeRTOS runs a ready task, so the holder goes on to its give; a task blocked
\* in xSemaphoreTake(.., portMAX_DELAY) sits in the mutex's waiting list and is
\* woken when the mutex is given, while each holder sleeps in vTaskDelay after
\* its give: a task that finds the mutex free again and again gets it
SpecLock ==
    /\ Init
    /\ [][NextLock]_vars
    /\ WF_vars(HolderStep)
    /\ SF_vars(KpTake) /\ SF_vars(LoraTake) /\ SF_vars(BtTake)
    /\ SF_vars(BatTake) /\ SF_vars(LvglTake)

\* ------------------------------------------------------------ link harness
\* the two writers of the radio link, with Serial2.println as a call that is
\* entered and left: position "tx" of a task is inside the call.
\* keypadTask (core 0): Send with text in MessageBuffer enters the call at line
\* 727, holding lvglMutex
KpSendBegin ==
    /\ pc["keypad"] = "held"
    /\ currentScreen = "LORA" /\ kp.key = 11 /\ messageLen > 0
    /\ Goto("keypad", "tx")
    /\ UNCHANGED <<handlerVars, bleVars, batVars, lvglMutex, lora, bt, keyVars,
                   serial2Rx, rxHist, nArrivals, nEchoed, codecVars>>

\* the call returns and the handler runs to its end
KpSendEnd == KpDispatch("tx")

\* any other key: the handler makes no call on the link
KpHandleQuiet ==
    /\ ~(currentScreen = "LORA" /\ kp.key = 11 /\ messageLen > 0)
    /\ KpHandle

\* bluetoothTask (core 1) enters the call at line 1009, holding no mutex
BtSendBegin ==
    /\ pc["bluetooth"] = "send"
    /\ Goto("bluetooth", "tx")
    /\ UNCHANGED <<handlerVars, bleVars, batVars, lvglMutex, lora, bt, keyVars,
                   serial2Rx, rxHist, nArrivals, nEchoed, codecVars>>

\* the call returns
BtSendEnd == BtPrintln("tx")

\* the keys of the link specification: "1" opens RadioEntry, "2" types, Send
LinkKeys == {-1, 0, 1, 11}

NextLink ==
    \/ \E key \in LinkKeys, dt \in ScanGaps : KpScan(key, dt)
    \/ KpTake \/ KpHandleQuiet \/ KpSendBegin \/ KpSendEnd \/ KpGive
    \/ BtInit \/ BtCheck \/ BtClearFlag \/ BtCopy \/ BtReset
    \/ BtSendBegin \/ BtSendEnd
    \/ BtTake \/ BtLogRead \/ BtLogWrite \/ BtGive \/ BtEcho
    \/ OnConnect \/ OnDisconnect \/ OnWriteFlag
    \/ \E v \in BleValues : Len(bleWrites) < MaxBleWrites /\ OnWriteBuf(v)

SpecLink == Init /\ [][NextLink]_vars

\* ================================================================= claims
\* GlyphSet of a key: the characters of its T9_MAP row before the first empty slot
GlyphSet(keyIndex) == SelectSeq(T9_MAP[keyIndex + 1], LAMBDA c : c # 0)

\* the key that carries character ch on the keypad
KeyLabelled(ch) ==
    CHOOSE k \in 0..15 : ~isSpecialKey(k) /\ \E i \in 1..5 : T9_MAP[k + 1][i] = ch

\* a step that dispatches one key to handleKeyPress
Dispatches == nPresses' = nPresses + 1

\* C4: for every plaintext of 0 to 200 bytes, decryptMessage(encryptMessage(P))
\* is P, and the padding decode removes is the padding encode added
C4_RoundTrip ==
    (codecPc = "decoded" /\ Len(codecIn) <= 200) =>
        /\ codecOut = codecIn
        /\ DecPadLen(codecHex, 0) = 16 - (Len(codecIn) % 16)
        /\ Len(codecHex) = 2 * (Len(codecIn) + 16 - (Len(codecIn) % 16))

\* C4 witness: a plaintext of two full blocks of the byte 16 came back unchanged
C4_Witness ==
    /\ codecPc = "decoded"
    /\ Len(codecIn) = 32
    /\ codecIn[32] = 16
    /\ codecOut = codecIn
    /\ Len(codecHex) = 96

\* C5 (as claimed): for every plaintext a caller can pass, of any length from 1,
\* encryptMessage returns 2 * (len + padLen) hex characters, a positive multiple
\* of 32, no 8-bit length wraps and no byte is written past the allocation
C5_PaddingAnyLength ==
    (codecPc # "input" /\ Len(codecIn) >= 1) =>
        LET padLen == 16 - (Len(codecIn) % 16)
        IN /\ codecPc # "crashed"
           /\ EncPadLen(codecIn) = padLen
           /\ EncInputLen(codecIn) = Len(codecIn) + padLen
           /\ EncWritten(codecIn) <= EncInputLen(codecIn)
           /\ Len(codecHex) = 2 * (Len(codecIn) + padLen)
           /\ Len(codecHex) > 0
           /\ Len(codecHex) % 32 = 0

\* C7: from an empty buffer and a fresh session, the n-th press in a row of one
\* non-function key, each less than T9_TIMEOUT after the one before, leaves the
\* buffer holding the single glyph number (n - 1) mod L of the key; after a gap
\* of T9_TIMEOUT or more the press appends the key's first glyph instead
C7_MultiTap ==
    LET k == lastDispatch.key
        g == GlyphSet(k)
        n == Len(taps)
    IN (n >= 1) =>
        /\ (\A i \in 2..n : taps[i] < T9_TIMEOUT) =>
              /\ messageBuffer = <<g[((n - 1) % Len(g)) + 1]>>
              /\ messageLen = 1
        /\ (n >= 2 /\ (\A i \in 2..(n - 1) : taps[i] < T9_TIMEOUT)
                   /\ taps[n] >= T9_TIMEOUT) =>
              /\ messageBuffer = <<g[((n - 2) % Len(g)) + 1], g[1]>>
              /\ messageLen = 2

\* C7 witness: "2" pressed four times in quick succession shows '2'
C7_Witness ==
    /\ Len(taps) = 4
    /\ \A i \in 2..4 : taps[i] < T9_TIMEOUT
    /\ lastDispatch.key = KeyLabelled(50)
    /\ messageBuffer = <<50>>

\* C8 (as claimed): on RadioEntry a non-function key pressed right after a
\* function key, or right after the screen was entered from the Menu, appends
\* the first glyph of its GlyphSet as a new character
C8_SessionReset ==
    [][(/\ Dispatches
        /\ currentScreen = "LORA"
        /\ ~isSpecialKey(lastDispatch'.key)
        /\ messageLen < 126
        /\ \/ lastDispatch.screen = "LORA" /\ isSpecialKey(lastDispatch.key)
           \/ lastDispatch.screen = "MENU")
       => /\ messageBuffer' = Append(messageBuffer, GlyphSet(lastDispatch'.key)[1])
          /\ messageLen' = messageLen + 1]_vars

\* C9 (as claimed): with 126 characters in MessageBuffer a non-function key
\* changes neither the contents nor the length
C9_FullBufferStalls ==
    [][(/\ Dispatches
        /\ currentScreen = "LORA"
        /\ ~isSpecialKey(lastDispatch'.key)
        /\ messageLen = 126
        /\ Len(messageBuffer) = 126)
       => UNCHANGED <<messageBuffer, messageLen>>]_vars

InCS(t) ==
    CASE t = "keypad" -> pc[t] \in {"held", "give"}
      [] t = "lora" -> pc[t] \in {"held", "write", "give"}
      [] t = "bluetooth" -> pc[t] \in {"held", "write", "give"}
      [] t = "battery" -> pc[t] \in {"held", "give"}
      [] t = "lvgl" -> pc[t] = "held"
      [] OTHER -> FALSE

\* SharedDisplayState: active screen, logs, status labels, received-message
\* counter, MessageBuffer with its input box, InputSession
SharedDisplayState ==
    <<currentScreen, ui_lora_log, ui_monitor_log, ui_bt_log, ui_monitor_status,
      ui_bt_status, monitorMsgCount, messageBuffer, messageLen, ui_lora_input,
      t9CharIndex, lastKeyPressed, lastKeyTime>>

\* C1: at most one task is between taking and giving lvglMutex, that task is the
\* one the mutex records as its holder, and every step that changes
\* SharedDisplayState is a step of the task holding the mutex
C1_LockDiscipline ==
    /\ [](\A t \in Tasks : InCS(t) => lvglMutex = t)
    /\ [](\A t1, t2 \in Tasks : InCS(t1) /\ InCS(t2) => t1 = t2)
    /\ [][SharedDisplayState' # SharedDisplayState =>
            \E t \in Tasks : /\ lvglMutex = t
                             /\ InCS(t)
                             /\ pc'[t] # pc[t]
                             /\ \A u \in Tasks \ {t} : pc'[u] = pc[u]]_vars

\* C1 witness: the radio-link reader is in the middle of its log append while
\* the keypad task waits for the mutex with a key to handle, and the log already
\* holds an entry
C1_Witness ==
    /\ pc["lora"] = "write"
    /\ lvglMutex = "lora"
    /\ pc["keypad"] = "take"
    /\ ui_lora_log # <<>>

\* the RadioEntry log entry of each event so far: frames written by Send and by
\* the wireless forward, then the non-empty inbound lines
LogEvents ==
    [i \in 1..Len(serial2Tx) |->
        IF serial2Tx[i].src = "keypad" THEN SentEntry(serial2Tx[i].plain)
        ELSE BtLoraEntry(serial2Tx[i].plain)]
      \o [i \in 1..Len(rxHist) |-> RecvEntry(rxHist[i])]

\* text carried by each event
EventTexts ==
    [i \in 1..Len(serial2Tx) |-> serial2Tx[i].plain] \o rxHist

\* number of line feeds in s
CountLF(s) == Cardinality({i \in 1..Len(s) : s[i] = LF})

RECURSIVE SumLF(_)
SumLF(texts) == IF texts = <<>> THEN 0 ELSE CountLF(Head(texts)) + SumLF(Tail(texts))

IsPrefix(e, s) == Len(e) <= Len(s) /\ SubSeq(s, 1, Len(e)) = e

\* log is the entries es[i], i in S, each once and whole, in some order
RECURSIVE Concats(_, _, _)
Concats(log, es, S) ==
    IF S = {} THEN log = <<>>
    ELSE \E i \in S : /\ IsPrefix(es[i], log)
                      /\ Concats(SubSeq(log, Len(es[i]) + 1, Len(log)), es, S \ {i})

\* no reader has an event it has yet to append
LogsSettled ==
    /\ pc["lora"] \in {"poll", "give"}
    /\ pc["bluetooth"] \notin {"take", "held", "write"}

C3_SentFrameDecoded ==
    (/\ pc["lora"] \in {"take", "held", "write", "give"}
     /\ lora.from = "keypad"
     /\ lora.cipher
     /\ lora.encRead)
        => lora.displayMsg = lora.plain

\* the line the reader holds is hex digits of a length that is no multiple of 32
BadHexLine ==
    /\ IsHexLine(lora.incomingMsg)
    /\ Len(lora.incomingMsg) % 32 # 0

\* the reader has handed the line it holds to decryptMessage
Decoded ==
    /\ pc["lora"] \in {"take", "held", "write", "give"}
    /\ lora.encRead
    /\ Len(lora.incomingMsg) >= 32
    /\ IsHexLine(lora.incomingMsg)

\* "< [ERRO DECRYPT]\n"
ErroEntry == RecvEntry(ErroDecrypt)

\* C6: decryptMessage of hex digits whose count is no multiple of 32 is
\* "[ERRO DECRYPT]"; the reader shows that marker, appends it to both logs with
\* the counter and its label advanced and nothing else changed, and is back at
\* its poll afterwards
C6_ErrorSurfaced ==
    /\ [](BadHexLine => decryptMessage(lora.incomingMsg) = ErroDecrypt)
    /\ [](BadHexLine /\ Decoded => lora.displayMsg = ErroDecrypt)
    /\ [][BadHexLine /\ Decoded /\ pc["lora"] = "write" /\ pc'["lora"] # "write" =>
            /\ ui_lora_log' = ui_lora_log \o ErroEntry
            /\ ui_monitor_log' = ui_monitor_log \o ErroEntry
            /\ monitorMsgCount' = monitorMsgCount + 1
            /\ ui_monitor_status' = [text |-> "Escutando", msgs |-> monitorMsgCount + 1]
            /\ UNCHANGED <<navVars, t9Vars, bufVars, ui_bt_log, ui_bt_status,
                           serial2Tx, bleVars, batVars>>]_vars
    /\ [][BadHexLine /\ Decoded /\ pc["lora"] # "write" =>
            UNCHANGED <<handlerVars, bleVars, batVars>>]_vars
    /\ (BadHexLine /\ Decoded) ~> (pc["lora"] = "poll")

\* C6 witness: the reader is back at its poll after a line of 33 or more hex
\* digits, no multiple of 32, and both logs end with the marker entry
C6_Witness ==
    /\ pc["lora"] = "poll"
    /\ BadHexLine
    /\ Len(lora.incomingMsg) > 32
    /\ lora.displayMsg = ErroDecrypt
    /\ Len(ui_lora_log) >= Len(ErroEntry)
    /\ SubSeq(ui_lora_log, Len(ui_lora_log) - Len(ErroEntry) + 1, Len(ui_lora_log)) = ErroEntry
    /\ monitorMsgCount >= 1

\* C11: whenever the active screen is not RadioEntry, MessageBuffer and its
\* input box are empty; Back on RadioEntry empties them and opens the Menu
C11_BufferEmptyOffScreen ==
    /\ [](currentScreen # "LORA" =>
            messageLen = 0 /\ messageBuffer = <<>> /\ ui_lora_input = <<>>)
    /\ [][(Dispatches /\ currentScreen = "LORA" /\ lastDispatch'.key = 7) =>
            /\ currentScreen' = "MENU"
            /\ messageLen' = 0
            /\ messageBuffer' = <<>>]_vars

\* C11 witness: Back was pressed on RadioEntry after a character had been typed,
\* the Menu is showing and the buffer is empty
C11_Witness ==
    /\ lastDispatch = [key |-> 7, screen |-> "LORA"]
    /\ lastKeyPressed # NoKey
    /\ currentScreen = "MENU"
    /\ messageLen = 0

\* C12: Send with a non-empty MessageBuffer writes one frame, the hex of
\* encryptMessage(buffer) when the flag is set and the buffer text otherwise,
\* ended by println's line terminator; it appends "> " + plaintext + "\n" to
\* the RadioEntry log and empties the buffer. Send with an empty buffer writes
\* no frame and changes no log and no buffer
C12_SendOneFrame ==
    [][(Dispatches /\ currentScreen = "LORA" /\ lastDispatch'.key = 11) =>
        IF messageLen > 0
        THEN /\ Len(serial2Tx') = Len(serial2Tx) + 1
             /\ SubSeq(serial2Tx', 1, Len(serial2Tx)) = serial2Tx
             /\ serial2Tx'[Len(serial2Tx')].data =
                  (IF encryptionEnabled THEN encryptMessage(messageBuffer)
                   ELSE messageBuffer) \o <<CR, LF>>
             /\ ui_lora_log' = ui_lora_log \o <<62, 32>> \o messageBuffer \o <<LF>>
             /\ messageBuffer' = <<>>
             /\ messageLen' = 0
             /\ ui_lora_input' = <<>>
             /\ UNCHANGED <<ui_monitor_log, ui_bt_log, currentScreen, encryptionEnabled>>
        ELSE UNCHANGED <<serial2Tx, logVars, bufVars, currentScreen,
                         encryptionEnabled>>]_vars

\* C12 witness: a Send with the flag clear wrote the buffer text as its frame,
\* logged it, and left the buffer empty
C12_Witness ==
    /\ lastDispatch = [key |-> 11, screen |-> "LORA"]
    /\ messageLen = 0
    /\ Len(serial2Tx) >= 1
    /\ LET f == serial2Tx[Len(serial2Tx)]
       IN /\ f.src = "keypad"
          /\ ~f.enc
          /\ f.data = f.plain \o <<CR, LF>>
          /\ ui_lora_log = <<62, 32>> \o f.plain \o <<LF>>

\* number of inbound lines the reader has appended to the logs
Logged == Len(rxHist) - (IF pc["lora"] \in {"take", "held", "write"} THEN 1 ELSE 0)

\* the entries of the inbound lines number from .. to, one after the other
RECURSIVE EntriesOf(_, _)
EntriesOf(from, to) ==
    IF from > to THEN <<>>
    ELSE RecvEntry(rxHist[from]) \o EntriesOf(from + 1, to)

\* C13: whenever lvglMutex is free, the Monitor log is the entries of the last
\* monitorMsgCount inbound lines and the status label shows that count; the
\* reader's append adds the entry to both logs and one to the counter on any
\* screen, and Delete on the Monitor empties the log and zeroes the counter
C13_CounterMatchesLog ==
    /\ [](lvglMutex = Free =>
            /\ monitorMsgCount <= Logged
            /\ ui_monitor_log = EntriesOf(Logged - monitorMsgCount + 1, Logged)
            /\ ui_monitor_status.msgs = monitorMsgCount)
    /\ [][pc["lora"] = "write" /\ pc'["lora"] # "write" =>
            /\ ui_lora_log' = ui_lora_log \o RecvEntry(lora.displayMsg)
            /\ ui_monitor_log' = ui_monitor_log \o RecvEntry(lora.displayMsg)
            /\ monitorMsgCount' = monitorMsgCount + 1]_vars
    /\ [][(Dispatches /\ currentScreen = "MONITOR" /\ lastDispatch'.key = 15) =>
            /\ ui_monitor_log' = <<>>
            /\ monitorMsgCount' = 0]_vars

\* C13 witness: a line was logged, Delete was pressed on the Monitor, and a
\* second line was logged: the counter is 1 with two lines received
C13_Witness ==
    /\ lvglMutex = Free
    /\ pc["lora"] = "poll"
    /\ Len(rxHist) = 2
    /\ monitorMsgCount = 1
    /\ currentScreen = "MONITOR"
    /\ ui_monitor_log = RecvEntry(rxHist[2])
    /\ ui_lora_log = RecvEntry(rxHist[1]) \o RecvEntry(rxHist[2])

\* C14 (as claimed): a task's step that reads the radio link, writes a frame to
\* it or sends a wireless notification is taken while that task does not hold
\* lvglMutex
C14_NoIoUnderLock ==
    [][(serial2Tx' # serial2Tx \/ serial2Rx' # serial2Rx \/ bleTx' # bleTx) =>
          \A t \in Tasks : pc'[t] # pc[t] => lvglMutex # t]_vars

\* the wireless-link reader has nothing in hand and finds nothing to drain, and
\* no callback is running
MailboxIdle ==
    /\ pc[BleHost] = "idle"
    /\ pc["bluetooth"] = "check"
    /\ ~(newBleData /\ Len(bleRxBuffer) > 0)

\* the text of the last value written, as bluetoothTask would forward it
LastWritten == Trim(CStr(bleWrites[Len(bleWrites)]))

\* C15 (as claimed): once the reader has nothing left to drain, the message
\* written last (when it has text) is the last one forwarded to the radio link
C15_LastWriteForwarded ==
    (MailboxIdle /\ bleWrites # <<>> /\ LastWritten # <<>>) =>
        /\ serial2Tx # <<>>
        /\ serial2Tx[Len(serial2Tx)].plain = LastWritten

\* C16 (as claimed): a codec call that has finished, whatever calls of other
\* tasks overlapped it, returns what it returns when run alone on its input
C16_CallsIndependent ==
    \A c \in Callers :
        (call[c].pc = "idle" /\ call[c].n > 0) =>
            CallResult(c, call[c].out) =
                (IF c = "lora" THEN decryptMessage(call[c].input)
                 ELSE encryptMessage(call[c].input))

\* the percentage C17 gives for a voltage
ClaimedPercent(voltage) ==
    CASE voltage = FloatOf(4200) -> 100
      [] voltage = FloatOf(3000) -> 0
      [] voltage = FloatOf(3600) -> 50
      [] voltage = FloatOf(5000) -> 100
      [] voltage >= 17616077 -> 100
      [] voltage <= 3 * FloatUnit -> 0
      [] OTHER -> ((voltage - 3 * FloatUnit) * 250) \div (3 * FloatUnit)

\* C17 (as claimed): the bar value set from voltageToPercent is 100 for 4.2, 0
\* for 3.0, 50 for 3.6, 100 for 5.0, within 0..100, 100 from 4.2 up, 0 up to
\* 3.0, the truncated interpolation in between, and never falls as the voltage
\* rises
C17_PercentOfVoltage ==
    (pc["battery"] = "give" /\ currentScreen = "BATTERY") =>
        /\ ui_battery.bar = ClaimedPercent(batteryVoltage)
        /\ ui_battery.bar \in 0..100
        /\ \A v \in GaugeReadings :
              v <= batteryVoltage => voltageToPercent(v) <= ui_battery.bar

\* C18: MessageBuffer never holds more than 126 characters: messageLen stays in
\* 0..126 and is the length of the text, so the terminator at index messageLen
\* is inside the 128-byte array; no key press takes the length below 0
C18_BufferBounded ==
    /\ [](messageLen \in 0..126 /\ Len(messageBuffer) = messageLen)
    /\ [][Dispatches =>
            /\ messageLen' >= 0
            /\ messageLen' <= messageLen + 1
            /\ (messageLen = 0 /\ lastDispatch'.key = 15 => messageLen' = 0)]_vars

\* C18 witness: four presses have been made and the buffer holds 126 characters
C18_Witness ==
    /\ nPresses = MaxPresses
    /\ messageLen = 126
    /\ Len(messageBuffer) = 126
    /\ ~isSpecialKey(lastDispatch.key)

\* C19 (as claimed): after the n-th press in a row of one non-function key, each
\* within the timeout of the one before, the last character of the buffer is
\* glyph number (n - 1) mod L of the key
C19_CycleAnyCount ==
    (taps # <<>> /\ \A i \in 1..Len(taps) : taps[i] < T9_TIMEOUT) =>
        LET g == GlyphSet(lastKeyPressed)
            n == PriorTaps + Len(taps)
        IN /\ messageLen = 1
           /\ messageBuffer[messageLen] = g[((n - 1) % Len(g)) + 1]

\* every character of the line the reader holds is one of 0-9, A-F, a-f
AllHexDigits ==
    \A i \in 1..Len(lora.incomingMsg) :
        \/ lora.incomingMsg[i] \in 48..57
        \/ lora.incomingMsg[i] \in 65..70
        \/ lora.incomingMsg[i] \in 97..102

\* C20: the line the reader has read is shown decoded exactly when the flag was
\* set, the line has 32 or more characters and all are hex digits, and as
\* received otherwise; that text is what is appended, as "< " + text + "\n", to
\* both logs; a read that yields an empty line leaves the reader at its poll
\* with no log and no counter changed
C20_Classification ==
    /\ [](pc["lora"] \in {"take", "held", "write", "give"} =>
            /\ Len(lora.incomingMsg) > 0
            /\ lora.displayMsg =
                 (IF lora.encRead /\ Len(lora.incomingMsg) >= 32 /\ AllHexDigits
                  THEN decryptMessage(lora.incomingMsg)
                  ELSE lora.incomingMsg))
    /\ [][pc["lora"] = "write" /\ pc'["lora"] = "give" =>
            /\ ui_lora_log' = ui_lora_log \o <<60, 32>> \o lora.displayMsg \o <<LF>>
            /\ ui_monitor_log' = ui_monitor_log \o <<60, 32>> \o lora.displayMsg \o <<LF>>
            /\ monitorMsgCount' = monitorMsgCount + 1]_vars
    /\ [][pc["lora"] = "poll" /\ lora' # lora /\ lora'.incomingMsg = <<>> =>
            /\ pc'["lora"] = "poll"
            /\ UNCHANGED <<logVars, monVars>>]_vars

\* C20 witness: with the flag clear a line of 32 hex digits was logged as
\* received
C20_Witness ==
    /\ pc["lora"] = "give"
    /\ ~lora.encRead
    /\ Len(lora.incomingMsg) = 32
    /\ AllHexDigits
    /\ lora.displayMsg = lora.incomingMsg
    /\ ui_lora_log = RecvEntry(lora.incomingMsg)

\* the bytes a hex string of any length stands for, two characters per byte
AllBytes(hex) == [i \in 1..(Len(hex) \div 2) |-> StrToByte(hex, i - 1)]

\* the final byte of the block-wise decryption of all of them
FinalByte(hex) ==
    LET n == Len(hex) \div 2
    IN DecBlock([k \in 1..16 |-> AllBytes(hex)[n - 16 + k]])[16]

\* C21 (as claimed): for every hex line of 32 characters or more, a multiple of
\* 32, decryptMessage processes all len/2 bytes and returns len/2 - padLen
\* bytes, padLen being the final decrypted byte when at most 16 and 0 otherwise;
\* the 8-bit cipherLen does not wrap and no byte outside output[] is read
C21_DecodeAnyLength ==
    codecPc = "unhexed" =>
        LET n == Len(codecIn) \div 2
            padLen == IF FinalByte(codecIn) > 16 THEN 0 ELSE FinalByte(codecIn)
        IN /\ DecCipherLen(codecIn) = n
           /\ Len(codecHex) = 1 + n
           /\ DecCipherLen(codecIn) - 1 >= 0
           /\ Len(codecOut) = n - padLen
           /\ n - padLen >= 0

\* the Wireless log and the RadioEntry log after the first k frames were logged
BtLogOf(k) ==
    LET f[i \in 0..k] == IF i = 0 THEN <<>> ELSE f[i - 1] \o BtLogEntry(serial2Tx[i].plain)
    IN f[k]

LoraLogOf(k) ==
    LET f[i \in 0..k] == IF i = 0 THEN <<>> ELSE f[i - 1] \o BtLoraEntry(serial2Tx[i].plain)
    IN f[k]

\* the frames whose log entries the wireless-link reader has written
BtLogged ==
    IF pc["bluetooth"] \in {"take", "held", "write"} THEN Len(serial2Tx) - 1
    ELSE Len(serial2Tx)

BackKey == CHOOSE k \in 0..15 : isSpecialKey(k) /\ T9_MAP[k + 1][1] = 66

\* C23: the active screen is Menu at boot and always one of the five screens;
\* a change of screen starts or ends on Menu; Back on a screen other than Menu
\* leads to Menu
C23_ScreenMachine ==
    /\ currentScreen = "MENU"
    /\ [](currentScreen \in {"MENU", "LORA", "MONITOR", "BLUETOOTH", "BATTERY"})
    /\ [][currentScreen' # currentScreen =>
            (currentScreen = "MENU" \/ currentScreen' = "MENU")]_vars
    /\ [][(Dispatches /\ currentScreen # "MENU" /\ lastDispatch'.key = BackKey) =>
            currentScreen' = "MENU"]_vars

\* C23 witness: Back on the Telemetry screen led to Menu
C23_Witness ==
    /\ lastDispatch = [key |-> BackKey, screen |-> "BATTERY"]
    /\ currentScreen = "MENU"

\* the function key labelled 'D', Delete
DeleteKey == CHOOSE k \in 0..15 : isSpecialKey(k) /\ T9_MAP[k + 1][1] = 68

\* C24: Delete on RadioEntry removes the last character of a non-empty
\* MessageBuffer and leaves an empty one empty; the non-function key pressed
\* next, whichever it is and however soon, appends its first glyph as a new
\* character
C24_DeleteResets ==
    /\ [][(Dispatches /\ currentScreen = "LORA" /\ lastDispatch'.key = DeleteKey) =>
            /\ messageBuffer' =
                 (IF messageBuffer = <<>> THEN <<>>
                  ELSE SubSeq(messageBuffer, 1, Len(messageBuffer) - 1))
            /\ messageLen' = Len(messageBuffer')
            /\ currentScreen' = "LORA"]_vars
    /\ [][(/\ Dispatches
           /\ lastDispatch = [key |-> DeleteKey, screen |-> "LORA"]
           /\ ~isSpecialKey(lastDispatch'.key)) =>
            /\ messageBuffer' = Append(messageBuffer, GlyphSet(lastDispatch'.key)[1])
            /\ messageLen' = messageLen + 1]_vars

\* C24 witness: with 124 letters typed, the last of them by the key "2", Delete
\* and then "2" again, both within T9_TIMEOUT, left 124 letters ending in 'A'
C24_Witness ==
    /\ nPresses = 2
    /\ now = (PrefillLen + 1) * T9_TIMEOUT + 2 * DtQuick
    /\ lastDispatch = [key |-> KeyLabelled(50), screen |-> "LORA"]
    /\ messageBuffer = [i \in 1..PrefillLen |-> 65]
    /\ messageLen = PrefillLen
    /\ t9CharIndex = 0

\* C25: a key is dispatched only when the scan differs from the scan before
\* it; a run of scans that return the same key dispatches it at most once; two
\* consecutive dispatches are more than 150 ms apart
C25_DebouncedDispatch ==
    /\ [](pad.run <= 1)
    /\ [](pad.prevAt >= 0 => pad.lastAt - pad.prevAt > 150)
    /\ [][(pc["keypad"] = "scan" /\ pc'["keypad"] = "take") =>
            (pad.down # kp.key /\ pad'.run = 1)]_vars
    /\ [][Dispatches => (pc["keypad"] = "held" /\ now >= pad.lastAt
                         /\ lastDispatch'.key = kp.key)]_vars

\* C25 witness: a key was dispatched, another key more than 150 ms later, and
\* that one has been held for more than 150 ms since without a second dispatch
C25_Witness ==
    /\ pc["keypad"] = "scan"
    /\ nPresses = 2
    /\ pad.prevAt >= 0
    /\ kp.key >= 0
    /\ pad.down = kp.key
    /\ pad.run = 1
    /\ now - pad.runSince > 150

\* C27 (as claimed): a key the scanner has reported as a change and that has
\* been down, scan after scan, for longer than the 150 ms window and one more
\* poll has been dispatched, also when its run began less than 150 ms after the
\* previous dispatch
C27_PressDispatched ==
    (/\ pc["keypad"] = "scan"
     /\ kp.key >= 0
     /\ now - pad.runSince > 150 + POLL_MS) => pad.run >= 1

\* C26 (as claimed): once a telemetry refresh has run, the voltage label in the
\* header of every screen shows the voltage sampled last
C26_EveryHeaderUpdated ==
    (pc["battery"] = "give" /\ nSamples > 0) =>
        \A s \in {"MENU", "LORA", "MONITOR", "BLUETOOTH", "BATTERY"} :
            ui_header[s] = FormatVolts(batteryVoltage)

\* task t is at its xSemaphoreTake
AtTake(t) == pc[t] = "take"

\* C28: a task holds the mutex only between its take and its give and always
\* gets to the give; a task at its take does not hold the mutex already; a
\* task waiting at its take gets the mutex
C28_NoDeadlock ==
    /\ [](\A t \in Tasks : lvglMutex = t => InCS(t))
    /\ [](\A t \in Tasks : AtTake(t) => lvglMutex # t)
    /\ \A t \in Tasks : (lvglMutex = t) ~> (lvglMutex # t)
    /\ \A t \in Tasks : AtTake(t) ~> (lvglMutex = t)

\* C28 witness: the keypad task, the radio-link reader and the telemetry
\* sampler all wait at their take while the renderer holds the mutex
C28_Witness ==
    /\ lvglMutex = "lvgl"
    /\ AtTake("keypad") /\ AtTake("lora") /\ AtTake("battery")

\* C29: whatever the interleaving of onWrite with the wireless-link reader, the
\* frames on the radio link can be matched one to one with writes of the
\* wireless peer that carry their text, so that no write is forwarded twice, and
\* the logs hold no more entries than there are frames
C29_AtMostOnce ==
    /\ \E f \in [1..Len(serial2Tx) -> 1..Len(bleWrites)] :
          /\ \A i, j \in 1..Len(serial2Tx) : f[i] = f[j] => i = j
          /\ \A i \in 1..Len(serial2Tx) :
                serial2Tx[i].plain = Trim(CStr(bleWrites[f[i]]))
    /\ \E k \in 0..Len(serial2Tx) : ui_lora_log = LoraLogOf(k)
    /\ \E k \in 0..Len(serial2Tx) : ui_bt_log = BtLogOf(k)

\* C29 witness: the peer wrote the same text twice and both writes were
\* forwarded and logged
C29_Witness ==
    /\ MailboxIdle
    /\ Len(bleWrites) = 2
    /\ bleWrites[1] = bleWrites[2]
    /\ Len(serial2Tx) = 2
    /\ ui_lora_log = LoraLogOf(2)
    /\ ui_bt_log = BtLogOf(2)

\* C30 (as claimed): the keypad task's Send and the wireless-link reader are
\* never both inside Serial2.println
C30_LinkExclusive ==
    ~(pc["keypad"] = "tx" /\ pc["bluetooth"] = "tx")

====
